---- MODULE Spec2Model ----
(***************************************************************************)
(* A model of grasshopper_mcp/bridge.py: the transport exchange            *)
(* send_to_grasshopper (one socket per call, newline framing, utf-8-sig    *)
(* decoding, JSON parsing, the catch-all handler) and the tools that build *)
(* commands on top of it.                                                  *)
(*                                                                         *)
(* Bytes and characters are one-token strings.  "EF" "BB" "BF" are the     *)
(* three bytes of the UTF-8 byte-order mark, "XX" is a byte that is not    *)
(* valid UTF-8, "NL" is the newline byte, "{" and "}" are braces and "m"   *)
(* stands for the text of one object member ("success": true).             *)
(* An optional Python argument is a sequence of length at most one:        *)
(* None is << >> and the value v is << v >>.                                *)
(***************************************************************************)
EXTENDS Integers, Sequences, FiniteSets, TLC

VARIABLES
    pc,             \* position of the running call
    call,           \* the arguments of the running call
    command,        \* the command dict built by the call (bridge.py:24-27)
    client,         \* index in socks of the call's socket, 0 when there is none
    socks,          \* every connection opened so far: "open" or "closed"
    wire,           \* the bytes the peer received on the call's connection
    response_data,  \* the bytes accumulated by the receive loop
    peer,           \* the peer: the bytes it still sends, what it does afterwards
    trace,          \* history of the running exchange (what happened, in counters)
    ret,            \* the outcome of the call
    calls           \* number of exchanges started so far

vars == <<pc, call, command, client, socks, wire, response_data, peer, trace, ret, calls>>

\* ------------------------------------------------------------------ bounds

\* Longest peer response body, in bytes (a byte-order mark comes on top).
MaxBody == 3
\* Number of successive exchanges.
MaxCalls == 2

\* ------------------------------------------------------------------ helpers

None == << >>
Some(v) == << v >>

Min(a, b) == IF a <= b THEN a ELSE b
Max(a, b) == IF a >= b THEN a ELSE b

Prefix(s, n) == SubSeq(s, 1, n)
Suffix(s, n) == SubSeq(s, n + 1, Len(s))

\* The elements of a sequence.
Range(s) == {s[i] : i \in DOMAIN s}

\* All sequences over S of length at most n.
SeqsUpTo(S, n) == UNION {[1..k -> S] : k \in 0..n}

\* ---------------------------------------------------------------- transport

\* client.recv(4096): the largest chunk one read returns.
RecvSize == 4096

BOM == <<"EF", "BB", "BF">>

\* bytes.endswith(b"\n")
EndsWithNewline(data) == Len(data) > 0 /\ data[Len(data)] = "NL"

\* The loop's exit test after one read (bridge.py:45-49): an empty chunk, or the
\* accumulated bytes end with a newline.
LoopDoneNoNewlineTest(chunk, data) == chunk = << >>
LoopDoneAnyNewline(chunk, data) == chunk = << >> \/ \E i \in DOMAIN data : data[i] = "NL"
LoopDone(chunk, data) == chunk = << >> \/ EndsWithNewline(data)

\* bytes.decode("utf-8"): every byte-order mark becomes the character "FEFF", a
\* byte that is no UTF-8 makes the decoding fail.
RECURSIVE DecodeUtf8(_)
DecodeUtf8(b) ==
    IF b = << >> THEN [ok |-> TRUE, str |-> << >>]
    ELSE IF Len(b) >= 3 /\ Prefix(b, 3) = BOM
    THEN LET r == DecodeUtf8(Suffix(b, 3))
         IN  [ok |-> r.ok, str |-> <<"FEFF">> \o r.str]
    ELSE IF b[1] \in {"EF", "BB", "BF", "XX"}
    THEN [ok |-> FALSE, str |-> << >>]
    ELSE LET r == DecodeUtf8(Tail(b))
         IN  [ok |-> r.ok, str |-> <<b[1]>> \o r.str]

\* bytes.decode("utf-8-sig"): as utf-8, after dropping one leading byte-order mark.
DecodeKeepingBOM(b) == DecodeUtf8(b)
DecodeUtf8Sig(b) ==
    IF Len(b) >= 3 /\ Prefix(b, 3) = BOM THEN DecodeUtf8(Suffix(b, 3)) ELSE DecodeUtf8(b)

\* str.strip(): leading and trailing whitespace removed (the newline is the
\* whitespace of the alphabet; "FEFF" is not whitespace).
RECURSIVE LStrip(_)
LStrip(s) == IF s # << >> /\ s[1] = "NL" THEN LStrip(Tail(s)) ELSE s
RECURSIVE RStrip(_)
RStrip(s) == IF s # << >> /\ s[Len(s)] = "NL" THEN RStrip(Prefix(s, Len(s) - 1)) ELSE s
Strip(s) == RStrip(LStrip(s))

\* json.loads: whitespace between tokens is skipped; the texts of the alphabet
\* that are JSON are {} and {"success": true}.  A dict is a function on its keys.
JsonLoads(s) ==
    LET toks == SelectSeq(s, LAMBDA c : c # "NL")
    IN  IF toks = <<"{", "}">> THEN [ok |-> TRUE, value |-> << >>]
        ELSE IF toks = <<"{", "m", "}">> THEN [ok |-> TRUE, value |-> [success |-> TRUE]]
        ELSE [ok |-> FALSE, value |-> << >>]

\* json.dumps of a dict of strings: its members in insertion order.
RECURSIVE DumpsMembers(_)
DumpsMembers(d) ==
    IF d = << >> THEN << >>
    ELSE <<d[1][1], ":", d[1][2]>>
         \o (IF Len(d) > 1 THEN <<",">> ELSE << >>)
         \o DumpsMembers(Tail(d))
DumpsDict(d) == <<"{">> \o DumpsMembers(d) \o <<"}">>

\* json.dumps(command): {"type": ..., "parameters": {...}} on one line.
JsonDumps(cmd) ==
    <<"{", "type", ":", cmd.type, ",", "parameters", ":">> \o DumpsDict(cmd.parameters) \o <<"}">>

\* (command_json + "\n").encode("utf-8")
FrameUnterminated(command_json) == command_json
Frame(command_json) == command_json \o <<"NL">>

\* Exceptions the calls of the try block raise, and the classes `except Exception`
\* catches: all of them.
OSErrors == {"ConnectionRefusedError", "BrokenPipeError", "ConnectionResetError"}
Exceptions == OSErrors \cup {"UnicodeDecodeError", "JSONDecodeError"}
CaughtOSErrorOnly(e) == e \in OSErrors
Caught(e) == e \in Exceptions

\* The handler's return value (bridge.py:62-65).
ErrorResponse(e) ==
    [success |-> FALSE, error |-> <<"Error communicating with Grasshopper: ", e>>]

\* What a call ends with after exception e was raised inside the try block.
Except(e) ==
    IF Caught(e) THEN [kind |-> "returned", value |-> ErrorResponse(e)]
    ELSE [kind |-> "raised", exc |-> e]

NoReturn == [kind |-> "none"]
\* reads counts the calls of recv up to two ("two or more").
NoTrace == [sends |-> 0, reads |-> 0, eof |-> FALSE, fault |-> "none", sendsBeforeRead |-> 0]

\* ------------------------------------------------------------------ inputs

\* Calls as the tools make them: a command type and an optional dict of parameters
\* (a sequence of <<key, value>> in insertion order).
Exchanges ==
    { <<"get_connections", None>>,
      <<"set_component_value", Some(<< <<"id", "c1">>, <<"value", "text">> >>)>> }

BodyBytes == {"{", "}", "m", "NL", "XX"}
PeerStreams == {p \o b : p \in {<< >>, BOM}, b \in SeqsUpTo(BodyBytes, MaxBody)}
\* After its last byte the peer closes the connection, stays connected and silent,
\* or the connection is reset.
PeerModes == {"close", "stay", "reset"}
NoPeer == [stream |-> << >>, full |-> << >>, mode |-> "none"]

\* -------------------------------------------------------------- the exchange

Init ==
    /\ pc = "idle"
    /\ call = [tool |-> "none"]
    /\ command = [type |-> "none", parameters |-> << >>]
    /\ client = 0
    /\ socks = << >>
    /\ wire = << >>
    /\ response_data = << >>
    /\ peer = NoPeer
    /\ trace = NoTrace
    /\ ret = NoReturn
    /\ calls = 0

\* bridge.py:18-27: the call starts; a params of None becomes {}.
Call ==
    /\ pc = "idle"
    /\ calls < MaxCalls
    /\ \E e \in Exchanges :
          /\ call' = [tool |-> "send_to_grasshopper", command_type |-> e[1], params |-> e[2]]
          /\ command' = [type |-> e[1], parameters |-> IF e[2] = None THEN << >> ELSE e[2][1]]
    /\ peer' = NoPeer
    /\ calls' = calls + 1
    /\ client' = 0
    /\ wire' = << >>
    /\ response_data' = << >>
    /\ trace' = NoTrace
    /\ ret' = NoReturn
    /\ pc' = "connect"
    /\ UNCHANGED socks

\* bridge.py:33-34: the socket connects.
Connect ==
    /\ pc = "connect"
    /\ socks' = Append(socks, "open")
    /\ client' = Len(socks) + 1
    /\ pc' = "send"
    /\ UNCHANGED <<call, command, wire, response_data, peer, trace, ret, calls>>

\* bridge.py:34, 59-65: the connection is refused.
ConnectFail ==
    /\ pc = "connect"
    /\ trace' = [trace EXCEPT !.fault = "ConnectionRefusedError"]
    /\ ret' = Except("ConnectionRefusedError")
    /\ pc' = "done"
    /\ UNCHANGED <<call, command, client, socks, wire, response_data, peer, calls>>

\* bridge.py:37-38: the framed command is sent whole; what the peer answers to it
\* is the peer's choice.
Send ==
    /\ pc = "send"
    /\ wire' = wire \o Frame(JsonDumps(command))
    /\ \E s \in PeerStreams, m \in PeerModes : peer' = [stream |-> s, full |-> s, mode |-> m]
    /\ trace' = [trace EXCEPT !.sends = @ + 1]
    /\ pc' = "recv"
    /\ UNCHANGED <<call, command, client, socks, response_data, ret, calls>>

\* bridge.py:38, 59-65: sendall fails after some of the bytes.
SendFail ==
    /\ pc = "send"
    /\ \E n \in 0..(Len(Frame(JsonDumps(command))) - 1) :
          wire' = wire \o Prefix(Frame(JsonDumps(command)), n)
    /\ trace' = [trace EXCEPT !.fault = "BrokenPipeError"]
    /\ ret' = Except("BrokenPipeError")
    /\ pc' = "done"
    /\ UNCHANGED <<call, command, client, socks, response_data, peer, calls>>

\* One pass of the loop, bridge.py:43-49, with the chunk recv returned.
LoopPass(chunk) ==
    /\ response_data' = response_data \o chunk
    /\ trace' = [trace EXCEPT !.reads = Min(@ + 1, 2),
                              !.eof = (chunk = << >>),
                              !.sendsBeforeRead = IF trace.reads = 0 THEN trace.sends ELSE @]
    /\ pc' = IF LoopDone(chunk, response_data \o chunk) THEN "process" ELSE "recv"

\* recv returns some of the bytes the peer has sent.
Recv ==
    /\ pc = "recv"
    /\ peer.stream # << >>
    /\ \E n \in 1..Min(Len(peer.stream), RecvSize) :
          /\ LoopPass(Prefix(peer.stream, n))
          /\ peer' = [peer EXCEPT !.stream = Suffix(peer.stream, n)]
    /\ UNCHANGED <<call, command, client, socks, wire, ret, calls>>

\* recv returns b"": the peer closed the connection.
RecvClosed ==
    /\ pc = "recv"
    /\ peer.stream = << >>
    /\ peer.mode = "close"
    /\ LoopPass(<< >>)
    /\ UNCHANGED <<call, command, client, socks, wire, peer, ret, calls>>

\* recv raises: the connection was reset.
RecvFail ==
    /\ pc = "recv"
    /\ peer.stream = << >>
    /\ peer.mode = "reset"
    /\ trace' = [trace EXCEPT !.reads = Min(@ + 1, 2), !.fault = "ConnectionResetError",
                              !.sendsBeforeRead = IF trace.reads = 0 THEN trace.sends ELSE @]
    /\ ret' = Except("ConnectionResetError")
    /\ pc' = "done"
    /\ UNCHANGED <<call, command, client, socks, wire, response_data, peer, calls>>

\* bridge.py:52-58 and 59-65: decode, strip, parse; close and return the parsed
\* response, or return the handler's response when decoding or parsing raised.
\* client.close() is line 57 only: it is not reached when line 52 or 56 raises.
Process ==
    /\ pc = "process"
    /\ LET dec == DecodeUtf8Sig(response_data)
           response == JsonLoads(Strip(dec.str))
       IN  IF ~dec.ok
           THEN /\ trace' = [trace EXCEPT !.fault = "UnicodeDecodeError"]
                /\ ret' = Except("UnicodeDecodeError")
                /\ UNCHANGED socks
           ELSE IF ~response.ok
           THEN /\ trace' = [trace EXCEPT !.fault = "JSONDecodeError"]
                /\ ret' = Except("JSONDecodeError")
                /\ UNCHANGED socks
           ELSE /\ socks' = [socks EXCEPT ![client] = "closed"]
                /\ ret' = [kind |-> "returned", value |-> response.value]
                /\ UNCHANGED trace
    /\ pc' = "done"
    /\ UNCHANGED <<call, command, client, wire, response_data, peer, calls>>

\* The caller has the outcome; the call's frame and its locals are gone.
Return ==
    /\ pc = "done"
    /\ pc' = "idle"
    /\ call' = [tool |-> "none"]
    /\ command' = [type |-> "none", parameters |-> << >>]
    /\ client' = 0
    /\ wire' = << >>
    /\ response_data' = << >>
    /\ peer' = NoPeer
    /\ trace' = NoTrace
    /\ ret' = NoReturn
    /\ UNCHANGED <<socks, calls>>

\* The runtime finalizes a socket object nothing refers to any more, which closes
\* it: right after the frame of the call is gone or at any later time, as the
\* runtime's memory management has it.
Finalize ==
    /\ pc = "idle"
    /\ \E i \in 1..Len(socks) :
          /\ socks[i] = "open"
          /\ socks' = [socks EXCEPT ![i] = "closed"]
    /\ UNCHANGED <<pc, call, command, client, wire, response_data, peer, trace, ret, calls>>

Next ==
    \/ Call
    \/ Connect
    \/ ConnectFail
    \/ Send
    \/ SendFail
    \/ Recv
    \/ RecvClosed
    \/ RecvFail
    \/ Process
    \/ Return
    \/ Finalize

Spec == Init /\ [][Next]_vars

\* A step that can be taken is eventually taken: the bridge runs, and a blocking
\* recv returns once the peer's bytes, its close or a reset are there.
LiveSpec == Init /\ [][Next]_vars /\ WF_vars(Next)

\* ------------------------------------------------------------- tools: names

\* A name is a sequence of one-character strings.
LowerCase == <<"a", "b", "c", "d", "e", "f", "g", "h", "i", "j", "k", "l", "m",
               "n", "o", "p", "q", "r", "s", "t", "u", "v", "w", "x", "y", "z">>
UpperCase == <<"A", "B", "C", "D", "E", "F", "G", "H", "I", "J", "K", "L", "M",
               "N", "O", "P", "Q", "R", "S", "T", "U", "V", "W", "X", "Y", "Z">>

\* str.lower() and str.upper() on one character.
ToLower(c) ==
    IF \E i \in DOMAIN UpperCase : UpperCase[i] = c
    THEN LowerCase[CHOOSE i \in DOMAIN UpperCase : UpperCase[i] = c]
    ELSE c
ToUpper(c) ==
    IF \E i \in DOMAIN LowerCase : LowerCase[i] = c
    THEN UpperCase[CHOOSE i \in DOMAIN LowerCase : LowerCase[i] = c]
    ELSE c

\* str.lower()
Lower(s) == [i \in 1..Len(s) |-> ToLower(s[i])]

\* sub in s
Contains(s, sub) ==
    \E i \in 0..(Len(s) - Len(sub)) : SubSeq(s, i + 1, i + Len(sub)) = sub

\* The canonical component names of the table.
Canon ==
    [ NumberSlider |-> <<"N", "u", "m", "b", "e", "r", " ", "S", "l", "i", "d", "e", "r">>,
      MDSlider |-> <<"M", "D", " ", "S", "l", "i", "d", "e", "r">>,
      GraphMapper |-> <<"G", "r", "a", "p", "h", " ", "M", "a", "p", "p", "e", "r">>,
      BooleanToggle |-> <<"B", "o", "o", "l", "e", "a", "n", " ", "T", "o", "g", "g", "l", "e">>,
      Integer |-> <<"I", "n", "t", "e", "g", "e", "r">>,
      Addition |-> <<"A", "d", "d", "i", "t", "i", "o", "n">>,
      Subtraction |-> <<"S", "u", "b", "t", "r", "a", "c", "t", "i", "o", "n">>,
      Multiplication |-> <<"M", "u", "l", "t", "i", "p", "l", "i", "c", "a", "t", "i", "o", "n">>,
      Division |-> <<"D", "i", "v", "i", "s", "i", "o", "n">>,
      ListItem |-> <<"L", "i", "s", "t", " ", "I", "t", "e", "m">>,
      ListLength |-> <<"L", "i", "s", "t", " ", "L", "e", "n", "g", "t", "h">>,
      Series |-> <<"S", "e", "r", "i", "e", "s">>,
      Range |-> <<"R", "a", "n", "g", "e">>,
      Move |-> <<"M", "o", "v", "e">>,
      Rotate |-> <<"R", "o", "t", "a", "t", "e">>,
      Scale |-> <<"S", "c", "a", "l", "e">>,
      ConstructPoint |-> <<"C", "o", "n", "s", "t", "r", "u", "c", "t", " ", "P", "o", "i", "n", "t">>,
      Vector2Pt |-> <<"V", "e", "c", "t", "o", "r", " ", "2", "P", "t">>,
      Distance |-> <<"D", "i", "s", "t", "a", "n", "c", "e">>,
      Line |-> <<"L", "i", "n", "e">>,
      Rectangle |-> <<"R", "e", "c", "t", "a", "n", "g", "l", "e">>,
      Circle |-> <<"C", "i", "r", "c", "l", "e">>,
      Loft |-> <<"L", "o", "f", "t">>,
      CurveLength |-> <<"C", "u", "r", "v", "e", " ", "L", "e", "n", "g", "t", "h">>,
      EvaluateCurve |-> <<"E", "v", "a", "l", "u", "a", "t", "e", " ", "C", "u", "r", "v", "e">>,
      DivideCurve |-> <<"D", "i", "v", "i", "d", "e", " ", "C", "u", "r", "v", "e">>,
      JoinCurves |-> <<"J", "o", "i", "n", " ", "C", "u", "r", "v", "e", "s">>,
      OffsetCurve |-> <<"O", "f", "f", "s", "e", "t", " ", "C", "u", "r", "v", "e">>,
      Box |-> <<"B", "o", "x">>,
      Sphere |-> <<"S", "p", "h", "e", "r", "e">>,
      Cylinder |-> <<"C", "y", "l", "i", "n", "d", "e", "r">>,
      Cone |-> <<"C", "o", "n", "e">>,
      Panel |-> <<"P", "a", "n", "e", "l">> ]

component_mapping ==
    (<<"n", "u", "m", "b", "e", "r", " ", "s", "l", "i", "d", "e", "r">> :> Canon.NumberSlider)
    @@ (<<"n", "u", "m", "e", "r", "i", "c", " ", "s", "l", "i", "d", "e", "r">> :> Canon.NumberSlider)
    @@ (<<"n", "u", "m", " ", "s", "l", "i", "d", "e", "r">> :> Canon.NumberSlider)
    @@ (<<"s", "l", "i", "d", "e", "r">> :> Canon.NumberSlider)
    @@ (<<"m", "d", " ", "s", "l", "i", "d", "e", "r">> :> Canon.MDSlider)
    @@ (<<"m", "u", "l", "t", "i", "d", "i", "m", "e", "n", "s", "i", "o", "n", "a", "l", " ", "s", "l", "i", "d", "e", "r">> :> Canon.MDSlider)
    @@ (<<"m", "u", "l", "t", "i", "-", "d", "i", "m", "e", "n", "s", "i", "o", "n", "a", "l", " ", "s", "l", "i", "d", "e", "r">> :> Canon.MDSlider)
    @@ (<<"g", "r", "a", "p", "h", " ", "m", "a", "p", "p", "e", "r">> :> Canon.GraphMapper)
    @@ (<<"b", "o", "o", "l", "e", "a", "n">> :> Canon.BooleanToggle)
    @@ (<<"b", "o", "o", "l">> :> Canon.BooleanToggle)
    @@ (<<"t", "o", "g", "g", "l", "e">> :> Canon.BooleanToggle)
    @@ (<<"i", "n", "t", "e", "g", "e", "r">> :> Canon.Integer)
    @@ (<<"i", "n", "t">> :> Canon.Integer)
    @@ (<<"a", "d", "d">> :> Canon.Addition)
    @@ (<<"a", "d", "d", "i", "t", "i", "o", "n">> :> Canon.Addition)
    @@ (<<"p", "l", "u", "s">> :> Canon.Addition)
    @@ (<<"s", "u", "m">> :> Canon.Addition)
    @@ (<<"+">> :> Canon.Addition)
    @@ (<<"s", "u", "b", "t", "r", "a", "c", "t">> :> Canon.Subtraction)
    @@ (<<"s", "u", "b", "t", "r", "a", "c", "t", "i", "o", "n">> :> Canon.Subtraction)
    @@ (<<"m", "i", "n", "u", "s">> :> Canon.Subtraction)
    @@ (<<"d", "i", "f", "f", "e", "r", "e", "n", "c", "e">> :> Canon.Subtraction)
    @@ (<<"-">> :> Canon.Subtraction)
    @@ (<<"m", "u", "l", "t", "i", "p", "l", "y">> :> Canon.Multiplication)
    @@ (<<"m", "u", "l", "t", "i", "p", "l", "i", "c", "a", "t", "i", "o", "n">> :> Canon.Multiplication)
    @@ (<<"t", "i", "m", "e", "s">> :> Canon.Multiplication)
    @@ (<<"p", "r", "o", "d", "u", "c", "t">> :> Canon.Multiplication)
    @@ (<<"*">> :> Canon.Multiplication)
    @@ (<<"d", "i", "v", "i", "d", "e">> :> Canon.Division)
    @@ (<<"d", "i", "v", "i", "s", "i", "o", "n">> :> Canon.Division)
    @@ (<<"/">> :> Canon.Division)
    @@ (<<"l", "i", "s", "t", " ", "i", "t", "e", "m">> :> Canon.ListItem)
    @@ (<<"i", "t", "e", "m">> :> Canon.ListItem)
    @@ (<<"l", "i", "s", "t", " ", "l", "e", "n", "g", "t", "h">> :> Canon.ListLength)
    @@ (<<"l", "e", "n", "g", "t", "h">> :> Canon.ListLength)
    @@ (<<"s", "e", "r", "i", "e", "s">> :> Canon.Series)
    @@ (<<"r", "a", "n", "g", "e">> :> Canon.Range)
    @@ (<<"m", "o", "v", "e">> :> Canon.Move)
    @@ (<<"t", "r", "a", "n", "s", "l", "a", "t", "e">> :> Canon.Move)
    @@ (<<"r", "o", "t", "a", "t", "e">> :> Canon.Rotate)
    @@ (<<"s", "c", "a", "l", "e">> :> Canon.Scale)
    @@ (<<"c", "o", "n", "s", "t", "r", "u", "c", "t", " ", "p", "o", "i", "n", "t">> :> Canon.ConstructPoint)
    @@ (<<"p", "o", "i", "n", "t">> :> Canon.ConstructPoint)
    @@ (<<"p", "t">> :> Canon.ConstructPoint)
    @@ (<<"v", "e", "c", "t", "o", "r", " ", "2", "p", "t">> :> Canon.Vector2Pt)
    @@ (<<"v", "e", "c", "t", "o", "r">> :> Canon.Vector2Pt)
    @@ (<<"d", "i", "s", "t", "a", "n", "c", "e">> :> Canon.Distance)
    @@ (<<"d", "i", "s", "t">> :> Canon.Distance)
    @@ (<<"l", "i", "n", "e">> :> Canon.Line)
    @@ (<<"r", "e", "c", "t", "a", "n", "g", "l", "e">> :> Canon.Rectangle)
    @@ (<<"r", "e", "c", "t">> :> Canon.Rectangle)
    @@ (<<"c", "i", "r", "c", "l", "e">> :> Canon.Circle)
    @@ (<<"l", "o", "f", "t">> :> Canon.Loft)
    @@ (<<"c", "u", "r", "v", "e", " ", "l", "e", "n", "g", "t", "h">> :> Canon.CurveLength)
    @@ (<<"e", "v", "a", "l", "u", "a", "t", "e", " ", "c", "u", "r", "v", "e">> :> Canon.EvaluateCurve)
    @@ (<<"d", "i", "v", "i", "d", "e", " ", "c", "u", "r", "v", "e">> :> Canon.DivideCurve)
    @@ (<<"j", "o", "i", "n", " ", "c", "u", "r", "v", "e", "s">> :> Canon.JoinCurves)
    @@ (<<"o", "f", "f", "s", "e", "t", " ", "c", "u", "r", "v", "e">> :> Canon.OffsetCurve)
    @@ (<<"b", "o", "x">> :> Canon.Box)
    @@ (<<"c", "u", "b", "e">> :> Canon.Box)
    @@ (<<"s", "p", "h", "e", "r", "e">> :> Canon.Sphere)
    @@ (<<"c", "y", "l", "i", "n", "d", "e", "r">> :> Canon.Cylinder)
    @@ (<<"c", "o", "n", "e">> :> Canon.Cone)
    @@ (<<"p", "a", "n", "e", "l">> :> Canon.Panel)
    @@ (<<"t", "e", "x", "t", " ", "p", "a", "n", "e", "l">> :> Canon.Panel)
    @@ (<<"o", "u", "t", "p", "u", "t", " ", "p", "a", "n", "e", "l">> :> Canon.Panel)
    @@ (<<"d", "i", "s", "p", "l", "a", "y">> :> Canon.Panel)

\* bridge.py:177: component_mapping[normalized_type], the table's entry for a key.
LookupChained(normalized_type) ==
    IF normalized_type = <<"d", "i", "s", "p", "l", "a", "y">>
    THEN <<"T", "e", "x", "t", " ", "P", "a", "n", "e", "l">>
    ELSE component_mapping[normalized_type]
Lookup(normalized_type) == component_mapping[normalized_type]

\* bridge.py:175-177: the lower-cased name is looked up; a miss keeps the name as
\* it was given.
NormalizeKeepingCase(component_type) ==
    IF component_type \in DOMAIN component_mapping
    THEN component_mapping[component_type]
    ELSE component_type
NormalizeLoweringMiss(component_type) ==
    LET normalized_type == Lower(component_type)
    IN  IF normalized_type \in DOMAIN component_mapping
        THEN component_mapping[normalized_type]
        ELSE normalized_type
Normalize(component_type) ==
    LET normalized_type == Lower(component_type)
    IN  IF normalized_type \in DOMAIN component_mapping
        THEN Lookup(normalized_type)
        ELSE component_type

\* ----------------------------------------------------------- tools: sliders

\* Numbers are counted in hundredths: 1.0 is 100, 10.0 is 1000, 0.01 is 1.

Abs(v) == IF v < 0 THEN -v ELSE v

\* params[k] = v
Put(d, k, v) == [f \in DOMAIN d \cup {k} |-> IF f = k THEN v ELSE d[f]]
\* if arg is not None: params[k] = arg
PutIfGiven(d, k, arg) == IF arg = None THEN d ELSE Put(d, k, arg[1])

\* bridge.py:197-211: the range add_component infers from the value alone.
InferRangeCapped(value) ==
    IF value > 100 THEN [min |-> 0, max |-> 1000]
    ELSE IF value < 0 THEN [min |-> Min(value * 2, -1000), max |-> Max(1000, Abs(value) * 2)]
    ELSE [min |-> 0, max |-> Max(200, value * 2)]
InferRangeDoubling(value) ==
    IF value > 100 THEN [min |-> 0, max |-> value * 2]
    ELSE IF value < 0 THEN [min |-> Min(value * 2, -1000), max |-> Max(1000, Abs(value) * 2)]
    ELSE [min |-> 0, max |-> Max(200, value * 2)]
InferRange(value) ==
    IF value > 100 THEN [min |-> 0, max |-> Max(1000, value * 2)]
    ELSE IF value < 0 THEN [min |-> Min(value * 2, -1000), max |-> Max(1000, Abs(value) * 2)]
    ELSE [min |-> 0, max |-> Max(200, value * 2)]

\* bridge.py:188-193: the slider arguments the caller gave go into params.
GivenParamsWithoutValue(params, min_value, max_value, value) ==
    PutIfGiven(PutIfGiven(params, "min", min_value), "max", max_value)
GivenParams(params, min_value, max_value, value) ==
    PutIfGiven(PutIfGiven(PutIfGiven(params, "min", min_value), "max", max_value),
               "value", value)

\* bridge.py:196: the range is inferred when a value is given and neither bound is.
InfersWheneverValueGiven(min_value, max_value, value) == value # None
InfersWhenABoundIsMissing(min_value, max_value, value) ==
    value # None /\ (min_value = None \/ max_value = None)
InfersRange(min_value, max_value, value) ==
    value # None /\ min_value = None /\ max_value = None

\* bridge.py:175-218: the params of the command add_component sends.
AddComponentParams(component_type, x, y, min_value, max_value, value) ==
    LET type == Normalize(component_type)
        params == [type |-> type, x |-> x, y |-> y]
        given == GivenParams(params, min_value, max_value, value)
    IN  IF ~Contains(Lower(type), <<"s", "l", "i", "d", "e", "r">>) THEN params
        ELSE IF InfersRange(min_value, max_value, value)
        THEN Put(Put(given, "min", InferRange(value[1]).min), "max", InferRange(value[1]).max)
        ELSE IF min_value = None /\ max_value = None
        THEN Put(Put(given, "min", 0), "max", 1000)
        ELSE given

\* bridge.py:237-246: the range create_slider_with_value computes.
SliderRangeZeroAsSmall(target_value) ==
    IF target_value < 0
    THEN [min |-> Min(target_value * 2, -1000), max |-> Max(1000, Abs(target_value) * 2)]
    ELSE IF target_value <= 100
    THEN [min |-> 0, max |-> Max(200, target_value * 2)]
    ELSE [min |-> 0, max |-> Max(target_value * 2, target_value + 1000)]
SliderRangeDoubling(target_value) ==
    IF target_value <= 0
    THEN [min |-> IF target_value < 0 THEN Min(target_value * 2, -1000) ELSE -1000,
          max |-> Max(1000, Abs(target_value) * 2)]
    ELSE IF target_value <= 100
    THEN [min |-> 0, max |-> Max(200, target_value * 2)]
    ELSE [min |-> 0, max |-> target_value * 2]
SliderRangeCapped(target_value) ==
    IF target_value <= 0
    THEN [min |-> IF target_value < 0 THEN Min(target_value * 2, -1000) ELSE -1000,
          max |-> Max(1000, Abs(target_value) * 2)]
    ELSE IF target_value <= 100
    THEN [min |-> 0, max |-> Max(200, target_value * 2)]
    ELSE [min |-> 0, max |-> 1000]
SliderRange(target_value) ==
    IF target_value <= 0
    THEN [min |-> IF target_value < 0 THEN Min(target_value * 2, -1000) ELSE -1000,
          max |-> Max(1000, Abs(target_value) * 2)]
    ELSE IF target_value <= 100
    THEN [min |-> 0, max |-> Max(200, target_value * 2)]
    ELSE [min |-> 0, max |-> Max(target_value * 2, target_value + 1000)]

\* bridge.py:249-254: the rounding.
Precision(target_value) ==
    IF Abs(target_value) < 10 THEN 1
    ELSE IF Abs(target_value) < 100 THEN 10
    ELSE 50

\* bridge.py:259-270: the params of the command create_slider_with_value sends.
CreateSliderParams(x, y, target_value, name) ==
    LET params == [type |-> Canon.NumberSlider, x |-> x, y |-> y,
                   min |-> SliderRange(target_value).min,
                   max |-> SliderRange(target_value).max,
                   value |-> target_value,
                   rounding |-> Precision(target_value)]
    IN  IF name # "" THEN Put(params, "name", name) ELSE params

\* bridge.py:1049-1050: the range the status resource's recommendation promises
\* for create_slider_with_value(x, y, 3.0).
StatusRecommendation == [target_value |-> 300, min |-> 0, max |-> 600]

\* ------------------------------------------------------------ tools: inputs

\* Upper-case letters a generated spelling of an alias differs by from the
\* all-lower-case (or from the all-upper-case) spelling.
MaxUpper == 2
\* Largest target of create_slider_with_value, in hundredths.
MaxTarget == 1200
\* Largest value given to add_component, in halves.
MaxHalf == 22
\* Largest bound given to add_component, in units.
MaxBound == 2

\* Sets of at most n positions of s.
PositionSets(s, n) == {{}} \cup {{f[i] : i \in 1..n} : f \in [1..n -> DOMAIN s]}
\* s with the letters at the positions of U in upper case and the others in lower
\* case, and the other way round.
UpperAt(s, U) == [i \in DOMAIN s |-> IF i \in U THEN ToUpper(s[i]) ELSE ToLower(s[i])]
LowerAt(s, U) == [i \in DOMAIN s |-> IF i \in U THEN ToLower(s[i]) ELSE ToUpper(s[i])]
Spellings(s) ==
    {UpperAt(s, U) : U \in PositionSets(s, MaxUpper)}
    \cup {LowerAt(s, U) : U \in PositionSets(s, MaxUpper)}

\* Names the table does not know, and canonical names.
OtherNames ==
    { <<"g", "i", "z", "m", "o">>,
      <<"G", "i", "z", "m", "o">>,
      <<"V", "o", "r", "o", "n", "o", "i", " ", "3", "D">>,
      <<"M", "y", " ", "S", "l", "i", "d", "e", "r">>,
      << >> }
ComponentTypes ==
    UNION {Spellings(k) : k \in DOMAIN component_mapping}
    \cup {component_mapping[k] : k \in DOMAIN component_mapping}
    \cup OtherNames

\* Types given together with slider arguments.
SliderCallTypes ==
    { <<"s", "l", "i", "d", "e", "r">>,
      Canon.NumberSlider,
      <<"M", "D", " ", "S", "L", "I", "D", "E", "R">>,
      <<"M", "y", " ", "S", "l", "i", "d", "e", "r">>,
      <<"p", "a", "n", "e", "l">> }
OptValues == {None} \cup {Some(50 * k) : k \in (-MaxHalf)..MaxHalf}
OptBounds == {None} \cup {Some(100 * k) : k \in (-MaxBound)..MaxBound}

Positions == {<<0, 0>>, <<12050, -300>>}
SliderNames == {"", "Radius"}
Targets == (-MaxTarget)..MaxTarget

\* What an exchange returns (the exchange itself is Spec's): a peer's result, a
\* peer's error, or the handler's response to a transport fault.
Responses ==
    { [success |-> TRUE, result |-> [id |-> "c7"]],
      [success |-> FALSE, error |-> <<"Unknown component type">>],
      ErrorResponse("ConnectionRefusedError") }

\* ----------------------------------------------------------- tools: actions

\* bridge.py:69-220: add_component builds its params and returns the exchange's
\* response.
AddComponentCall(component_type, pos, min_value, max_value, value) ==
    /\ call' = [tool |-> "add_component", component_type |-> component_type,
                x |-> pos[1], y |-> pos[2],
                min_value |-> min_value, max_value |-> max_value, value |-> value]
    /\ command' = [type |-> "add_component",
                   parameters |-> AddComponentParams(component_type, pos[1], pos[2],
                                                     min_value, max_value, value)]
    /\ \E r \in Responses : ret' = [kind |-> "returned", value |-> r]
    /\ pc' = "returned"
    /\ calls' = 1
    /\ UNCHANGED <<client, socks, wire, response_data, peer, trace>>

add_component ==
    /\ pc = "idle"
    /\ \/ \E t \in ComponentTypes : AddComponentCall(t, <<0, 0>>, None, None, None)
       \/ \E t \in SliderCallTypes, pos \in Positions,
             lo \in OptBounds, hi \in OptBounds, v \in OptValues :
             AddComponentCall(t, pos, lo, hi, v)

\* bridge.py:223-281: create_slider_with_value builds its params and returns the
\* exchange's response.
create_slider_with_value ==
    /\ pc = "idle"
    /\ \E pos \in Positions, target_value \in Targets, name \in SliderNames :
          /\ call' = [tool |-> "create_slider_with_value", x |-> pos[1], y |-> pos[2],
                      target_value |-> target_value, name |-> name]
          /\ command' = [type |-> "add_component",
                         parameters |-> CreateSliderParams(pos[1], pos[2], target_value, name)]
    /\ \E r \in Responses : ret' = [kind |-> "returned", value |-> r]
    /\ pc' = "returned"
    /\ calls' = 1
    /\ UNCHANGED <<client, socks, wire, response_data, peer, trace>>

\* ------------------------------------------------------ tools: connections

\* k in d
HasKey(d, k) == k \in DOMAIN d
\* dict.get(k): None when the key is absent.
Get(d, k) == IF k \in DOMAIN d THEN Some(d[k]) ELSE None

\* The value of "result" in a peer's answer: JSON null, an object or an array.
JsonNull == [json |-> "null"]
JsonObject(fields) == [json |-> "object", fields |-> fields]
JsonArray(items) == [json |-> "array", items |-> items]

\* bridge.py:347: `"type" in target_info["result"]` raises TypeError when the
\* result is null.
InfoRaises(target_info) == HasKey(target_info, "result") /\ target_info.result = JsonNull
\* bridge.py:347: the answer carries a result with a type.
InfoHasType(target_info) ==
    /\ HasKey(target_info, "result")
    /\ target_info.result # JsonNull
    /\ HasKey(target_info.result.fields, "type")

\* bridge.py:355: `for conn in connections["result"]` raises TypeError when the
\* result is null.
ConnectionsRaise(connections) ==
    HasKey(connections, "result") /\ connections.result = JsonNull

\* bridge.py:352-357: the connections the peer reported into the target, in the
\* order of the peer's list.
ExistingConnections(connections, target_id) ==
    IF HasKey(connections, "result")
    THEN SelectSeq(connections.result.items,
                   LAMBDA conn : Get(conn, "targetId") = Some(target_id))
    ELSE << >>

\* bridge.py:360: the component types whose inputs are assigned automatically.
BinaryInputTypes ==
    { Canon.Addition, Canon.Subtraction, Canon.Multiplication, Canon.Division,
      <<"M", "a", "t", "h">> }
IsBinaryInputAnyType(component_type) == TRUE
IsBinaryInput(component_type) == component_type \in BinaryInputTypes

\* bridge.py:362: the caller gave no target port.
NoTargetPortGivenNameOnly(target_param, target_param_index) == target_param = None
NoTargetPortGiven(target_param, target_param_index) ==
    target_param = None /\ target_param_index = None

\* bridge.py:364-368: the scan for a connection on the first input.
FirstInputOccupiedHeadOnly(existing_connections) ==
    /\ existing_connections # << >>
    /\ \/ Get(Head(existing_connections), "targetParam") = Some("A")
       \/ Get(Head(existing_connections), "targetParamIndex") = Some(0)
RECURSIVE FirstInputOccupied(_)
FirstInputOccupied(existing_connections) ==
    IF existing_connections = << >> THEN FALSE
    ELSE LET conn == Head(existing_connections)
         IN  IF Get(conn, "targetParam") = Some("A") \/ Get(conn, "targetParamIndex") = Some(0)
             THEN TRUE
             ELSE FirstInputOccupied(Tail(existing_connections))

\* bridge.py:347-374: target_param after the automatic assignment.
ResolvePort(target_info, connections, target_id, target_param, target_param_index) ==
    IF /\ InfoHasType(target_info)
       /\ IsBinaryInput(target_info.result.fields.type)
       /\ NoTargetPortGiven(target_param, target_param_index)
    THEN IF FirstInputOccupied(ExistingConnections(connections, target_id))
         THEN Some("B")
         ELSE Some("A")
    ELSE target_param

\* bridge.py:381-384 and 386-389: one side's port, the name before the index.
SideParamsBoth(params, name_key, index_key, param, param_index) ==
    PutIfGiven(PutIfGiven(params, name_key, param), index_key, param_index)
SideParams(params, name_key, index_key, param, param_index) ==
    IF param # None THEN Put(params, name_key, param[1])
    ELSE IF param_index # None THEN Put(params, index_key, param_index[1])
    ELSE params

\* bridge.py:376-389: the params of the connect command.
ConnectParams(source_id, target_id, source_param, target_param, source_param_index, target_param_index) ==
    SideParams(SideParams([sourceId |-> source_id, targetId |-> target_id],
                          "sourceParam", "sourceParamIndex", source_param, source_param_index),
               "targetParam", "targetParamIndex", target_param, target_param_index)

\* Longest list of connections the peer reports.
MaxConns == 2

\* Ports as callers give them.
OptSourceParams == {None, Some("R")}
OptSourceIndexes == {None, Some(1)}
OptTargetParams == {None, Some("A"), Some("B")}
OptTargetIndexes == {None, Some(0), Some(1)}

\* Answers to get_component_info without a type: an empty object, a peer's
\* error, the handler's response to a transport fault, a result without a type,
\* a null result.
UntypedInfos ==
    { << >>,
      [success |-> FALSE, error |-> <<"Component not found">>],
      ErrorResponse("ConnectionRefusedError"),
      [success |-> TRUE, result |-> JsonObject([id |-> "t1"])],
      [success |-> TRUE, result |-> JsonNull] }
\* Answers with a type: two of the arithmetic set, two outside it.
ReportedTypes ==
    { Canon.Addition, <<"M", "a", "t", "h">>, Canon.Panel,
      <<"a", "d", "d", "i", "t", "i", "o", "n">> }
TypedInfos ==
    { [success |-> TRUE, result |-> JsonObject([id |-> "t1", type |-> t])] : t \in ReportedTypes }

\* Connections as the peer reports them: into the target t1 on no known port, on
\* its input A or B by name or index, and into another component.
ReportedConnections ==
    { [sourceId |-> "s0", targetId |-> "t1"],
      [sourceId |-> "s0", targetId |-> "t1", targetParam |-> "A"],
      [sourceId |-> "s0", targetId |-> "t1", targetParam |-> "B"],
      [sourceId |-> "s0", targetId |-> "t1", targetParamIndex |-> 0],
      [sourceId |-> "s0", targetId |-> "t1", targetParamIndex |-> 1],
      [sourceId |-> "s0", targetId |-> "t2", targetParam |-> "A"],
      [sourceId |-> "s0", targetId |-> "t2", targetParamIndex |-> 0] }
ConnectionsAnswers ==
    { ErrorResponse("ConnectionResetError"),
      [success |-> TRUE, result |-> JsonNull] }
    \cup { [success |-> TRUE, result |-> JsonArray(l)] : l \in SeqsUpTo(ReportedConnections, MaxConns) }

\* bridge.py:328-391: connect_components reads the target's info, reads the
\* connections when the info carries a type, and sends the connect command; an
\* answer the code cannot read ends the call with the exception.  asked is the
\* answer to get_connections, None when that exchange is not made; trace keeps
\* the commands sent and the answers to them, in order.
ConnectCall(source_param, target_param, source_param_index, target_param_index, target_info, asked) ==
    LET source_id == "s1"
        target_id == "t1"
        connections == IF asked = None THEN << >> ELSE asked[1]
        raised == InfoRaises(target_info) \/ (asked # None /\ ConnectionsRaise(connections))
        reads == << [type |-> "get_component_info", parameters |-> [id |-> target_id]] >>
                 \o (IF asked = None THEN << >>
                     ELSE << [type |-> "get_connections", parameters |-> << >>] >>)
        answers == <<target_info>> \o (IF asked = None THEN << >> ELSE <<connections>>)
        connect == [type |-> "connect_components",
                    parameters |->
                        ConnectParams(source_id, target_id, source_param,
                                      ResolvePort(target_info, connections, target_id,
                                                  target_param, target_param_index),
                                      source_param_index, target_param_index)]
    IN  /\ call' = [tool |-> "connect_components",
                    source_id |-> source_id, target_id |-> target_id,
                    source_param |-> source_param, target_param |-> target_param,
                    source_param_index |-> source_param_index,
                    target_param_index |-> target_param_index]
        /\ IF raised
           THEN /\ command' = [type |-> "none", parameters |-> << >>]
                /\ ret' = [kind |-> "raised", exc |-> "TypeError"]
                /\ trace' = [sent |-> reads, answers |-> answers,
                             target_info |-> target_info, connections |-> asked]
           ELSE /\ command' = connect
                /\ \E r \in Responses :
                      /\ ret' = [kind |-> "returned", value |-> r]
                      /\ trace' = [sent |-> Append(reads, connect),
                                   answers |-> Append(answers, r),
                                   target_info |-> target_info, connections |-> asked]
        /\ pc' = "returned"
        /\ calls' = IF raised THEN Len(reads) ELSE Len(reads) + 1
        /\ UNCHANGED <<client, socks, wire, response_data, peer>>

connect_components ==
    /\ pc = "idle"
    /\ \E source_param \in OptSourceParams, target_param \in OptTargetParams,
          source_param_index \in OptSourceIndexes, target_param_index \in OptTargetIndexes :
          \/ \E target_info \in UntypedInfos :
                ConnectCall(source_param, target_param, source_param_index,
                            target_param_index, target_info, None)
          \/ \E target_info \in TypedInfos, connections \in ConnectionsAnswers :
                ConnectCall(source_param, target_param, source_param_index,
                            target_param_index, target_info, Some(connections))

\* ================================================================ analyzer
\* analyze_code_variables and _generate_guide_text.  A text is a sequence of
\* one-character strings, "NL" being the newline; a set of names is a set of
\* such sequences.

Digits == {"0", "1", "2", "3", "4", "5", "6", "7", "8", "9"}
\* [a-zA-Z_] and \w of the regular expressions (bridge.py:895, 904).
IsLetter(c) == c \in Range(LowerCase) \cup Range(UpperCase) \cup {"_"}
IsWordChar(c) == IsLetter(c) \/ c \in Digits
\* The whitespace str.strip() removes and \s matches.
IsSpace(c) == c \in {" ", "TAB"}

\* code.split('\n')
RECURSIVE SplitLines(_)
SplitLines(code) ==
    IF \A i \in DOMAIN code : code[i] # "NL" THEN <<code>>
    ELSE LET n == CHOOSE i \in DOMAIN code : code[i] = "NL" /\ \A j \in 1..(i - 1) : code[j] # "NL"
         IN  <<Prefix(code, n - 1)>> \o SplitLines(Suffix(code, n))

\* line.strip()
RECURSIVE StripLeft(_)
StripLeft(line) == IF line # << >> /\ IsSpace(line[1]) THEN StripLeft(Tail(line)) ELSE line
RECURSIVE StripRight(_)
StripRight(line) ==
    IF line # << >> /\ IsSpace(line[Len(line)]) THEN StripRight(Prefix(line, Len(line) - 1))
    ELSE line
StripLine(line) == StripRight(StripLeft(line))

\* line.startswith(prefix)
StartsWith(line, prefix) == Len(line) >= Len(prefix) /\ Prefix(line, Len(prefix)) = prefix

\* \w+ at the start of line: the length of its longest prefix of word characters.
RECURSIVE RunLength(_)
RunLength(line) ==
    IF line # << >> /\ IsWordChar(line[1]) THEN 1 + RunLength(Tail(line)) ELSE 0

\* bridge.py:895, 919: re.match(r'^(\w+)\s*=', line): the name group(1) matched,
\* None when the line does not start with a word followed by "=".
AssignmentMatch(line) ==
    LET n == RunLength(line)
        rest == StripLeft(Suffix(line, n))
    IN  IF n > 0 /\ rest # << >> /\ rest[1] = "=" THEN Some(Prefix(line, n)) ELSE None

\* bridge.py:904, 926: re.findall(r'\b([a-zA-Z_][a-zA-Z0-9_]*)\b', line): the
\* words of the line that start with a letter or an underscore, in order.
RECURSIVE FindIdentifiers(_)
FindIdentifiers(line) ==
    IF line = << >> THEN << >>
    ELSE IF ~IsWordChar(line[1]) THEN FindIdentifiers(Tail(line))
    ELSE LET n == RunLength(line)
         IN  (IF IsLetter(line[1]) THEN <<Prefix(line, n)>> ELSE << >>)
             \o FindIdentifiers(Suffix(line, n))

\* bridge.py:899, 922: the names that count as outputs when assigned.
PythonOutputNames ==
    {
      <<"r", "e", "s", "u", "l", "t">>, <<"o", "u", "t", "p", "u", "t">>, <<"a">>,
      <<"b">>, <<"c">>, <<"o", "u", "t">>, <<"g", "e", "o", "m", "e", "t", "r", "y">>,
      <<"p", "o", "i", "n", "t", "s">>, <<"c", "u", "r", "v", "e", "s">>,
      <<"s", "u", "r", "f", "a", "c", "e", "s">>
    }
CSharpOutputNames ==
    {
      <<"r", "e", "s", "u", "l", "t">>, <<"o", "u", "t", "p", "u", "t">>, <<"a">>,
      <<"b">>, <<"c">>, <<"o", "u", "t">>
    }
\* bridge.py:907, 928: the words that are never inputs.
PythonKeywords ==
    {
      <<"p", "r", "i", "n", "t">>, <<"l", "e", "n">>, <<"r", "a", "n", "g", "e">>,
      <<"f", "o", "r">>, <<"i", "f">>, <<"e", "l", "s", "e">>, <<"e", "l", "i", "f">>,
      <<"w", "h", "i", "l", "e">>, <<"d", "e", "f">>, <<"c", "l", "a", "s", "s">>,
      <<"i", "m", "p", "o", "r", "t">>, <<"f", "r", "o", "m">>, <<"a", "s">>,
      <<"T", "r", "u", "e">>, <<"F", "a", "l", "s", "e">>, <<"N", "o", "n", "e">>,
      <<"a", "n", "d">>, <<"o", "r">>, <<"n", "o", "t">>, <<"i", "n">>, <<"i", "s">>,
      <<"m", "a", "t", "h">>,
      <<"g", "h", "p", "y", "t", "h", "o", "n", "l", "i", "b">>,
      <<"R", "h", "i", "n", "o">>,
      <<"G", "r", "a", "s", "s", "h", "o", "p", "p", "e", "r">>,
      <<"S", "y", "s", "t", "e", "m">>
    }
CSharpKeywords ==
    {
      <<"v", "a", "r">>, <<"i", "n", "t">>, <<"d", "o", "u", "b", "l", "e">>,
      <<"s", "t", "r", "i", "n", "g">>, <<"b", "o", "o", "l">>, <<"i", "f">>,
      <<"e", "l", "s", "e">>, <<"f", "o", "r">>, <<"w", "h", "i", "l", "e">>,
      <<"f", "o", "r", "e", "a", "c", "h">>, <<"u", "s", "i", "n", "g">>,
      <<"n", "a", "m", "e", "s", "p", "a", "c", "e">>, <<"c", "l", "a", "s", "s">>,
      <<"p", "u", "b", "l", "i", "c">>, <<"p", "r", "i", "v", "a", "t", "e">>,
      <<"s", "t", "a", "t", "i", "c">>, <<"v", "o", "i", "d">>,
      <<"r", "e", "t", "u", "r", "n">>, <<"t", "r", "u", "e">>,
      <<"f", "a", "l", "s", "e">>, <<"n", "u", "l", "l">>, <<"n", "e", "w">>,
      <<"t", "h", "i", "s">>, <<"b", "a", "s", "e">>,
      <<"P", "o", "i", "n", "t", "3", "d">>,
      <<"V", "e", "c", "t", "o", "r", "3", "d">>, <<"P", "l", "a", "n", "e">>,
      <<"C", "i", "r", "c", "l", "e">>, <<"L", "i", "n", "e">>,
      <<"C", "u", "r", "v", "e">>, <<"S", "u", "r", "f", "a", "c", "e">>,
      <<"B", "r", "e", "p">>, <<"M", "e", "s", "h">>, <<"M", "a", "t", "h">>,
      <<"S", "y", "s", "t", "e", "m">>, <<"R", "h", "i", "n", "o">>,
      <<"G", "r", "a", "s", "s", "h", "o", "p", "p", "e", "r">>
    }

\* What the analyzer knows of a dialect: None for a language it does not analyze
\* (bridge.py:887, 911: the language is compared in lower case).
DialectCaseSensitive(language) ==
    IF language = <<"p", "y", "t", "h", "o", "n">>
    THEN Some([comment |-> <<"#">>, outputs |-> PythonOutputNames, keywords |-> PythonKeywords])
    ELSE IF language = <<"c", "s", "h", "a", "r", "p">>
    THEN Some([comment |-> <<"/", "/">>, outputs |-> CSharpOutputNames, keywords |-> CSharpKeywords])
    ELSE None
Dialect(language) ==
    IF Lower(language) = <<"p", "y", "t", "h", "o", "n">>
    THEN Some([comment |-> <<"#">>, outputs |-> PythonOutputNames, keywords |-> PythonKeywords])
    ELSE IF Lower(language) = <<"c", "s", "h", "a", "r", "p">>
    THEN Some([comment |-> <<"/", "/">>, outputs |-> CSharpOutputNames, keywords |-> CSharpKeywords])
    ELSE None

\* bridge.py:890-909 (913-930): what one line adds to the two sets.
LineOutputs(line, d) ==
    LET stripped == StripLine(line)
        assignment_match == AssignmentMatch(stripped)
    IN  IF stripped = << >> \/ StartsWith(stripped, d.comment) THEN {}
        ELSE IF assignment_match # None /\ Lower(assignment_match[1]) \in d.outputs
        THEN {assignment_match[1]}
        ELSE {}
LineInputs(line, d) ==
    LET stripped == StripLine(line)
        assignment_match == AssignmentMatch(stripped)
        used_vars == FindIdentifiers(stripped)
    IN  IF stripped = << >> \/ StartsWith(stripped, d.comment) THEN {}
        ELSE { used_vars[i] : i \in { j \in DOMAIN used_vars :
                   /\ used_vars[j] \notin d.keywords
                   /\ (assignment_match = None \/ used_vars[j] # assignment_match[1]) } }

\* bridge.py:933: inputs = inputs - outputs
RemoveOutputsForgotten(inputs, outputs) == inputs
RemoveOutputs(inputs, outputs) == inputs \ outputs

\* bridge.py:881-933: the two sets after the scan of all lines.
AnalyzedSets(code, language) ==
    LET lines == SplitLines(code)
        d == Dialect(language)
        outputs == IF d = None THEN {}
                   ELSE UNION {LineOutputs(lines[i], d[1]) : i \in DOMAIN lines}
        inputs == IF d = None THEN {}
                  ELSE UNION {LineInputs(lines[i], d[1]) : i \in DOMAIN lines}
    IN  [inputs |-> RemoveOutputs(inputs, outputs), outputs |-> outputs]

\* bridge.py:936-937
Warnings(inputs, outputs) ==
    IF inputs = {} /\ outputs = {}
    THEN <<"No variables detected - code might be self-contained">>
    ELSE << >>

\* list(a_set): the elements in the order the set iterates them, which for a set
\* of strings is any order (it follows the strings' hashes, seeded per process).
ListsOf(S) == {l \in [1..Cardinality(S) -> S] : Range(l) = S}

\* str.upper()
Upper(s) == [i \in 1..Len(s) |-> ToUpper(s[i])]

\* A dict in insertion order is a sequence of <<key, value>> with distinct keys.
DictKeys(d) == {d[i][1] : i \in DOMAIN d}
\* d[k] = v: a new key goes last, a key already there keeps its place.
DictSet(d, k, v) ==
    IF k \in DictKeys(d)
    THEN [i \in DOMAIN d |-> IF d[i][1] = k THEN <<k, v>> ELSE d[i]]
    ELSE Append(d, <<k, v>>)

\* A parameter as callers give it: a dict with a name and maybe a type, or
\* something that is no dict.
Param(name, type) == JsonObject([name |-> name, type |-> type])
UntypedParam(name) == JsonObject([name |-> name])
NoDict == [json |-> "string"]

\* bridge.py:843, 855: {param.get("name"): param for param in params
\* if isinstance(param, dict)}
RECURSIVE DictOfParams(_, _)
DictOfParams(params, d) ==
    IF params = << >> THEN d
    ELSE IF Head(params).json # "object" THEN DictOfParams(Tail(params), d)
    ELSE DictOfParams(Tail(params), DictSet(d, Head(params).fields.name, Head(params).fields))

\* bridge.py:844-846, 856-858: the analyzer's names that are not declared are
\* added with the default type, in the order of the analyzer's list.
RECURSIVE AddFound(_, _, _)
AddFound(d, found, type) ==
    IF found = << >> THEN d
    ELSE AddFound(IF Head(found) \in DictKeys(d) THEN d
                  ELSE DictSet(d, Head(found), [type |-> type]),
                  Tail(found), type)

\* bridge.py:848-852, 860-864: the lines of one section.
SectionLines(d, default) ==
    IF d = << >> THEN << [kind |-> "text", text |-> "None required."] >>
    ELSE [i \in DOMAIN d |->
             [kind |-> "entry", name |-> d[i][1],
              type |-> IF HasKey(d[i][2], "type") THEN d[i][2].type ELSE default]]

TypeNumber == <<"n", "u", "m", "b", "e", "r">>
TypeGeometry == <<"g", "e", "o", "m", "e", "t", "r", "y">>

\* bridge.py:824-866: the guide text, line by line, for the analyzer's result
\* variables_in_code.
GuideText(language, input_params, output_params, variables_in_code) ==
    LET all_inputs == AddFound(DictOfParams(IF input_params = None THEN << >> ELSE input_params[1],
                                            << >>),
                               variables_in_code.inputs, TypeNumber)
        all_outputs == AddFound(DictOfParams(IF output_params = None THEN << >> ELSE output_params[1],
                                             << >>),
                                variables_in_code.outputs, TypeGeometry)
    IN  << [kind |-> "header", language |-> Upper(language)],
           [kind |-> "text", text |-> "1. Zoom in on script component to see +/-"],
           [kind |-> "text", text |-> "2. Use + to add/remove parameters."],
           [kind |-> "text", text |-> "3. Right-click params to set Name & Type Hint."],
           [kind |-> "text", text |-> ""],
           [kind |-> "text", text |-> "---INPUTS---"] >>
        \o SectionLines(all_inputs, TypeNumber)
        \o << [kind |-> "text", text |-> ""],
              [kind |-> "text", text |-> "---OUTPUTS---"] >>
        \o SectionLines(all_outputs, TypeGeometry)

\* --------------------------------------------------------- analyzer: inputs

\* Longest code, in lines.
MaxLines == 2

\* '\n'.join(lines)
RECURSIVE JoinLines(_)
JoinLines(lines) ==
    IF lines = << >> THEN << >>
    ELSE IF Len(lines) = 1 THEN lines[1]
    ELSE lines[1] \o <<"NL">> \o JoinLines(Tail(lines))

CodeLines ==
    {
      <<>>,    \* (empty)
      <<"#", " ", "p">>,    \* # p
      <<"/", "/", " ", "p">>,    \* // p
      <<"r", "e", "s", "u", "l", "t", " ", "=", " ", "a", " ", "+", " ", "b">>,    \* result = a + b
      <<"a", " ", "=", " ", "p">>,    \* a = p
      <<"p", " ", "=", " ", "a">>,    \* p = a
      <<"a", " ", "=", "=", " ", "b">>,    \* a == b
      <<"p", "r", "i", "n", "t", "(", "p", ")">>,    \* print(p)
      <<"v", "a", "r", " ", "q", " ", "=", " ", "p">>,    \* var q = p
      <<" ", "O", "u", "t", "=", "3">>,    \*  Out=3
      <<"q", "2", " ", "=", " ", "2", "q">>,    \* q2 = 2q
      <<"r", "e", "s", "u", "l", "t", " ", "=", " ", "q">>    \* result = q
    }
CodeTexts == {JoinLines(ls) : ls \in SeqsUpTo(CodeLines, MaxLines)}
Languages ==
    { <<"p", "y", "t", "h", "o", "n">>, <<"P", "y", "t", "h", "o", "n">>,
      <<"c", "s", "h", "a", "r", "p">>, <<"g", "e", "n", "e", "r", "i", "c">> }

TypeInt == <<"i", "n", "t">>
TypeMesh == <<"m", "e", "s", "h">>
OptInputParams ==
    { None,
      Some(<< Param(<<"p">>, TypeInt) >>),
      Some(<< UntypedParam(<<"z">>), NoDict, Param(<<"b">>, TypeInt), Param(<<"z">>, TypeInt) >>) }
OptOutputParams == { None, Some(<< Param(<<"m">>, TypeMesh) >>) }

\* `result = a + b`
Snippet == <<"r", "e", "s", "u", "l", "t", " ", "=", " ", "a", " ", "+", " ", "b">>

\* bridge.py:868-943: analyze_code_variables returns the two sets as lists and
\* the warnings.
AnalysisResults(code, language) ==
    LET sets == AnalyzedSets(code, language)
    IN  { [inputs |-> ins, outputs |-> outs, warnings |-> Warnings(sets.inputs, sets.outputs)] :
              ins \in ListsOf(sets.inputs), outs \in ListsOf(sets.outputs) }

\* ------------------------------------------------------------ tools: guide

JsonNumber(n) == [json |-> "number", value |-> n]
JsonString(t) == [json |-> "string", text |-> t]

\* bridge.py:760, 792: not info or not info.get("success")
RefusedOnlyWhenEmpty(response) == response = << >>
Refused(response) ==
    response = << >> \/ ~HasKey(response, "success") \/ ~response.success

\* bridge.py:766, 798: info.get("data", {}).get("result", {}): the object under
\* data.result, an empty one when a key is missing, None when a null is in the
\* way (the .get on it raises AttributeError).
DataResult(response) ==
    IF ~HasKey(response, "data") THEN Some(<< >>)
    ELSE IF response.data = JsonNull THEN None
    ELSE IF ~HasKey(response.data.fields, "result") THEN Some(<< >>)
    ELSE IF response.data.fields.result = JsonNull THEN None
    ELSE Some(response.data.fields.result.fields)

\* bridge.py:767-768: script_pos.get("x", 100), in hundredths.
Coordinate(script_pos, axis) ==
    IF HasKey(script_pos, axis) THEN script_pos[axis] ELSE JsonNumber(10000)
\* bridge.py:779: x + 300
PanelOffset == 30000

\* bridge.py:798: .get("id"): the id, None when there is none.
PanelId(panel_result) == IF HasKey(panel_result, "id") THEN Some(panel_result.id) ELSE None

\* What the handler's except branches return (bridge.py:769-773, 816-820).
GuideError(text) == [success |-> FALSE, error |-> text]

\* Answers to the guide's get_component_info: nothing, a peer's error, a
\* transport fault, a position under result, a position under data.result, a
\* null data, a position that is no number.
ScriptInfos ==
    { << >>,
      [success |-> FALSE, error |-> <<"Component not found">>],
      ErrorResponse("ConnectionRefusedError"),
      [success |-> TRUE, result |-> JsonObject([id |-> "c1", x |-> JsonNumber(500), y |-> JsonNumber(600)])],
      [success |-> TRUE,
       data |-> JsonObject([result |-> JsonObject([id |-> "c1", x |-> JsonNumber(500), y |-> JsonNumber(600)])])],
      [success |-> TRUE, data |-> JsonNull],
      [success |-> TRUE,
       data |-> JsonObject([result |-> JsonObject([id |-> "c1", x |-> JsonString("5"), y |-> JsonNumber(600)])])] }
\* Answers to the guide's add_component: the same shapes, with the panel's id.
PanelInfos ==
    { << >>,
      [success |-> FALSE, error |-> <<"Unknown component type">>],
      ErrorResponse("ConnectionResetError"),
      [success |-> TRUE, result |-> JsonObject([id |-> "p1"])],
      [success |-> TRUE, data |-> JsonObject([result |-> JsonObject([id |-> "p1"])])],
      [success |-> TRUE, data |-> JsonObject([result |-> JsonNull])] }

GuideCodes == { << >>, Snippet }
GuideLanguages == { <<"p", "y", "t", "h", "o", "n">> }

\* bridge.py:757-820: generate_manual_setup_guide.  sent and answers are the
\* commands sent so far and the answers to them; each step either ends the call
\* or hands over to the next.
GuideEnds(sent, answers, outcome) ==
    /\ trace' = [sent |-> sent, answers |-> answers]
    /\ command' = IF sent = << >> THEN [type |-> "none", parameters |-> << >>] ELSE sent[Len(sent)]
    /\ ret' = outcome
    /\ calls' = Len(sent)
    /\ pc' = "returned"
    /\ UNCHANGED <<client, socks, wire, response_data, peer>>

\* bridge.py:801-814: the panel's value is set, the script is connected to the
\* panel, and the answer to set_component_value is returned.
GuideSetAndConnect(sent, answers, script_component_id, panel_id, guide_text) ==
    LET set_value == [type |-> "set_component_value",
                      parameters |-> [id |-> panel_id, value |-> guide_text]]
        connect == [type |-> "connect_components",
                    parameters |-> [sourceId |-> script_component_id, targetId |-> panel_id]]
    IN  \E set_value_result \in Responses, connected \in Responses :
            GuideEnds(sent \o <<set_value, connect>>,
                      answers \o <<set_value_result, connected>>,
                      [kind |-> "returned", value |-> set_value_result])

\* bridge.py:779-798: the panel is added to the right of the script.
GuideAddPanel(sent, answers, script_component_id, x, y, guide_text) ==
    LET add_panel == [type |-> "add_component",
                      parameters |-> [type |-> Canon.Panel, x |-> x.value + PanelOffset,
                                      y |-> y, name |-> "Setup Guide",
                                      value |-> guide_text]]
    IN  IF x.json # "number"
        THEN GuideEnds(sent, answers, [kind |-> "raised", exc |-> "TypeError"])
        ELSE \E panel_info \in PanelInfos :
                LET sent2 == Append(sent, add_panel)
                    answers2 == Append(answers, panel_info)
                IN  IF Refused(panel_info)
                    THEN GuideEnds(sent2, answers2,
                                   [kind |-> "returned",
                                    value |-> GuideError(<<"Failed to create the guide panel.">>)])
                    ELSE IF DataResult(panel_info) = None
                    THEN GuideEnds(sent2, answers2,
                                   [kind |-> "returned",
                                    value |-> GuideError(<<"Error creating guide panel: ", "AttributeError">>)])
                    ELSE GuideSetAndConnect(sent2, answers2, script_component_id,
                                            PanelId(DataResult(panel_info)[1]), guide_text)

generate_manual_setup_guide ==
    /\ pc = "idle"
    /\ \E code \in GuideCodes, language \in GuideLanguages, script_info \in ScriptInfos :
          LET script_component_id == "c1"
              sent == << [type |-> "get_component_info", parameters |-> [id |-> script_component_id]] >>
              answers == <<script_info>>
          IN  /\ call' = [tool |-> "generate_manual_setup_guide",
                          script_component_id |-> script_component_id,
                          code |-> code, language |-> language,
                          input_params |-> None, output_params |-> None]
              /\ IF Refused(script_info)
                 THEN GuideEnds(sent, answers,
                                [kind |-> "returned",
                                 value |-> GuideError(<<"Failed to get script component info.">>)])
                 ELSE IF DataResult(script_info) = None
                 THEN GuideEnds(sent, answers,
                                [kind |-> "returned",
                                 value |-> GuideError(<<"Error getting component position: ", "AttributeError">>)])
                 ELSE \E variables_in_code \in AnalysisResults(code, language) :
                         GuideAddPanel(sent, answers, script_component_id,
                                       Coordinate(DataResult(script_info)[1], "x"),
                                       Coordinate(DataResult(script_info)[1], "y"),
                                       GuideText(language, None, None, variables_in_code))

\* ----------------------------------------------------------- tools: status

\* bridge.py:955, 1040, 1042: d.get("result", default)
ResultOr(response, default) == IF HasKey(response, "result") THEN response.result ELSE default

\* bridge.py:1017-1031: one connection of a component, seen from the component.
ConnectionSummary(conn, component) ==
    LET sourceParam == IF HasKey(conn, "sourceParam") THEN conn.sourceParam ELSE ""
        targetParam == IF HasKey(conn, "targetParam") THEN conn.targetParam ELSE ""
    IN  IF Get(conn, "sourceId") = Get(component, "id")
        THEN [type |-> "output", to |-> IF HasKey(conn, "targetId") THEN conn.targetId ELSE "",
              sourceParam |-> sourceParam, targetParam |-> targetParam]
        ELSE [type |-> "input", from |-> IF HasKey(conn, "sourceId") THEN conn.sourceId ELSE "",
              sourceParam |-> sourceParam, targetParam |-> targetParam]

\* bridge.py:1003-1012: the settings of the summary; the defaults are those of a
\* slider that reports none (in hundredths).
SliderDefaults == [min |-> 0, max |-> 1000, value |-> 500, rounding |-> 10]
SummarySettings(component) ==
    IF HasKey(component, "currentSettings") THEN [settings |-> component.currentSettings]
    ELSE IF Get(component, "type") = Some(Canon.NumberSlider)
    THEN [settings |-> [k \in DOMAIN SliderDefaults |->
                            IF HasKey(component, k) THEN component[k] ELSE SliderDefaults[k]]]
    ELSE << >>
\* bridge.py:1015-1034
SummaryConnections(component) ==
    IF HasKey(component, "connections") /\ component.connections # << >>
    THEN [connections |-> [i \in DOMAIN component.connections |->
                              ConnectionSummary(component.connections[i], component)]]
    ELSE << >>
\* bridge.py:993-1036
ComponentSummary(component) ==
    [id |-> IF HasKey(component, "id") THEN component.id ELSE "",
     type |-> IF HasKey(component, "type") THEN component.type ELSE << >>,
     position |-> [x |-> IF HasKey(component, "x") THEN component.x ELSE 0,
                   y |-> IF HasKey(component, "y") THEN component.y ELSE 0]]
    @@ SummarySettings(component) @@ SummaryConnections(component)

\* bridge.py:955, 992, 1052: the loop over a null result and the length of a
\* null result raise TypeError.
StatusRaises(components_result, connections) ==
    \/ components_result # << >> /\ ResultOr(components_result, JsonArray(<< >>)) = JsonNull
    \/ ResultOr(connections, JsonArray(<< >>)) = JsonNull

Connected == <<"Connected to Grasshopper">>
\* bridge.py:1038-1053: the status when nothing was raised.
ConnectedStatus(doc_info, components_result, connections) ==
    LET components == IF components_result = << >> THEN << >>
                      ELSE ResultOr(components_result, JsonArray(<< >>)).items
        component_summaries == [i \in DOMAIN components |-> ComponentSummary(components[i])]
        links == ResultOr(connections, JsonArray(<< >>)).items
    IN  [status |-> Connected,
         document |-> ResultOr(doc_info, JsonObject(<< >>)),
         components |-> component_summaries,
         connections |-> links,
         component_hints |-> {Canon.NumberSlider, Canon.MDSlider, Canon.Panel, Canon.Addition},
         recommendations |-> StatusRecommendation,
         canvas_summary |-> [components |-> Len(component_summaries), connections |-> Len(links)]]
\* bridge.py:1054-1062: the status of the except branch.
ErrorStatus(e) ==
    [status |-> <<"Error: ", e>>, document |-> JsonObject(<< >>),
     components |-> << >>, connections |-> << >>]

\* The peer's answers to the three exchanges of the status resource.
DocumentAnswers ==
    { ErrorResponse("ConnectionRefusedError"),
      [success |-> FALSE, error |-> <<"No active document">>],
      [success |-> TRUE, result |-> JsonObject([name |-> "doc", componentCount |-> 1])] }
ReportedComponents ==
    { [id |-> "t1", type |-> Canon.Addition, x |-> 100, y |-> 200,
       connections |-> << [sourceId |-> "s0", targetId |-> "t1", targetParam |-> "A"],
                          [sourceId |-> "t1", targetId |-> "p1"] >>],
      [id |-> "s0", type |-> Canon.NumberSlider, max |-> 600],
      [id |-> "p1", type |-> Canon.Panel, currentSettings |-> [text |-> "3"]] }
ComponentsAnswers ==
    { << >>,
      ErrorResponse("ConnectionRefusedError"),
      [success |-> FALSE, error |-> <<"No active document">>],
      [success |-> TRUE, result |-> JsonNull] }
    \cup { [success |-> TRUE, result |-> JsonArray(l)] : l \in SeqsUpTo(ReportedComponents, 1) }
StatusConnectionsAnswers ==
    { ErrorResponse("ConnectionRefusedError"),
      [success |-> FALSE, error |-> <<"No active document">>],
      [success |-> TRUE, result |-> JsonNull] }
    \cup { [success |-> TRUE, result |-> JsonArray(l)] : l \in SeqsUpTo(ReportedConnections, 1) }

\* bridge.py:946-1062: get_grasshopper_status makes three exchanges and
\* summarises their answers; trace keeps the commands and the answers.
get_grasshopper_status ==
    /\ pc = "idle"
    /\ \E doc_info \in DocumentAnswers, components_result \in ComponentsAnswers,
          connections \in StatusConnectionsAnswers :
          /\ trace' = [sent |-> << [type |-> "get_document_info", parameters |-> << >>],
                                   [type |-> "get_all_components", parameters |-> << >>],
                                   [type |-> "get_connections", parameters |-> << >>] >>,
                       answers |-> <<doc_info, components_result, connections>>]
          /\ ret' = [kind |-> "returned",
                     value |-> IF StatusRaises(components_result, connections)
                               THEN ErrorStatus("TypeError")
                               ELSE ConnectedStatus(doc_info, components_result, connections)]
    /\ call' = [tool |-> "get_grasshopper_status"]
    /\ command' = [type |-> "get_connections", parameters |-> << >>]
    /\ calls' = 3
    /\ pc' = "returned"
    /\ UNCHANGED <<client, socks, wire, response_data, peer>>

\* The tool's caller has the response; the server waits for the next tool call.
ToolReturn ==
    /\ pc = "returned"
    /\ pc' = "idle"
    /\ call' = [tool |-> "none"]
    /\ command' = [type |-> "none", parameters |-> << >>]
    /\ trace' = NoTrace
    /\ ret' = NoReturn
    /\ calls' = 0
    /\ UNCHANGED <<client, socks, wire, response_data, peer>>

ToolNext ==
    \/ add_component
    \/ create_slider_with_value
    \/ connect_components
    \/ generate_manual_setup_guide
    \/ get_grasshopper_status
    \/ ToolReturn

ToolSpec == Init /\ [][ToolNext]_vars

\* -------------------------------------------------------- analyzer: actions

analyze_code_variables ==
    /\ pc = "idle"
    /\ \E code \in CodeTexts, language \in Languages :
          /\ call' = [tool |-> "analyze_code_variables", code |-> code, language |-> language]
          /\ \E r \in AnalysisResults(code, language) : ret' = [kind |-> "returned", value |-> r]
    /\ pc' = "returned"
    /\ UNCHANGED <<command, client, socks, wire, response_data, peer, trace, calls>>

\* bridge.py:822-866: _generate_guide_text analyzes the code and composes the
\* text; trace keeps the analyzer's result.
generate_guide_text ==
    /\ pc = "idle"
    /\ \E code \in CodeTexts, language \in Languages,
          input_params \in OptInputParams, output_params \in OptOutputParams :
          /\ call' = [tool |-> "_generate_guide_text", code |-> code, language |-> language,
                      input_params |-> input_params, output_params |-> output_params]
          /\ \E variables_in_code \in AnalysisResults(code, language) :
                /\ trace' = [variables_in_code |-> variables_in_code]
                /\ ret' = [kind |-> "returned",
                           value |-> GuideText(language, input_params, output_params,
                                               variables_in_code)]
    /\ pc' = "returned"
    /\ UNCHANGED <<command, client, socks, wire, response_data, peer, calls>>

AnalyzerNext ==
    \/ analyze_code_variables
    \/ generate_guide_text
    \/ ToolReturn

AnalyzerSpec == Init /\ [][AnalyzerNext]_vars

\* ============================================================= concurrency
\* Two connect_components calls run against one peer, exchange by exchange
\* (each tool call is served on its own; the bridge holds no lock and no state
\* between the exchanges of a call).  pc, call, command, trace and ret are per
\* operation; peer holds the graph's connections.

Operations == {1, 2}

\* The target of both operations: an Addition named t1.
RaceTargetInfo == [success |-> TRUE, result |-> JsonObject([id |-> "t1", type |-> Canon.Addition])]
\* The peer's answer to get_connections for the graph it holds.
GraphAnswer(connections) == [success |-> TRUE, result |-> JsonArray(connections)]

RaceInit ==
    /\ pc = [o \in Operations |-> "idle"]
    /\ call = [o \in Operations |-> [tool |-> "none"]]
    /\ command = [o \in Operations |-> [type |-> "none", parameters |-> << >>]]
    /\ trace = [o \in Operations |-> [target_info |-> << >>, connections |-> None]]
    /\ ret = [o \in Operations |-> NoReturn]
    /\ peer = [connections |-> << >>]
    /\ calls = 0
    /\ client = 0
    /\ socks = << >>
    /\ wire = << >>
    /\ response_data = << >>

\* bridge.py:327-343: a caller starts connect_components with no port given.
RaceCall(o) ==
    /\ pc[o] = "idle"
    /\ calls < MaxCalls
    /\ calls' = calls + 1
    /\ call' = [call EXCEPT ![o] = [tool |-> "connect_components",
                                    source_id |-> IF o = 1 THEN "s1" ELSE "s2",
                                    target_id |-> "t1"]]
    /\ pc' = [pc EXCEPT ![o] = "get_component_info"]
    /\ UNCHANGED <<command, client, socks, wire, response_data, peer, trace, ret>>

\* bridge.py:344-347: the first read exchange.
RaceReadInfo(o) ==
    /\ pc[o] = "get_component_info"
    /\ trace' = [trace EXCEPT ![o].target_info = RaceTargetInfo]
    /\ pc' = [pc EXCEPT ![o] = "get_connections"]
    /\ UNCHANGED <<call, command, client, socks, wire, response_data, peer, ret, calls>>

\* bridge.py:351-357: the second read exchange: the peer's graph as it is now.
RaceReadConnections(o) ==
    /\ pc[o] = "get_connections"
    /\ trace' = [trace EXCEPT ![o].connections = Some(GraphAnswer(peer.connections))]
    /\ pc' = [pc EXCEPT ![o] = "connect_components"]
    /\ UNCHANGED <<call, command, client, socks, wire, response_data, peer, ret, calls>>

\* bridge.py:360-374: what the port is resolved from at the time of the write:
\* the connections read earlier (nothing is read again).
ConnectionsRereadAtWrite(o) == GraphAnswer(peer.connections)
ConnectionsAtWrite(o) == trace[o].connections[1]

\* bridge.py:376-391: the write exchange; the peer adds the connection.
RaceWrite(o) ==
    /\ pc[o] = "connect_components"
    /\ LET params == ConnectParams(call[o].source_id, call[o].target_id, None,
                                   ResolvePort(trace[o].target_info, ConnectionsAtWrite(o),
                                               call[o].target_id, None, None),
                                   None, None)
       IN  /\ command' = [command EXCEPT ![o] = [type |-> "connect_components",
                                                 parameters |-> params]]
           /\ peer' = [peer EXCEPT !.connections = Append(@, params)]
    /\ ret' = [ret EXCEPT ![o] = [kind |-> "returned",
                                  value |-> [success |-> TRUE, result |-> JsonNull]]]
    /\ pc' = [pc EXCEPT ![o] = "returned"]
    /\ UNCHANGED <<call, client, socks, wire, response_data, trace, calls>>

\* The caller has the response.
RaceReturn(o) ==
    /\ pc[o] = "returned"
    /\ pc' = [pc EXCEPT ![o] = "idle"]
    /\ call' = [call EXCEPT ![o] = [tool |-> "none"]]
    /\ command' = [command EXCEPT ![o] = [type |-> "none", parameters |-> << >>]]
    /\ trace' = [trace EXCEPT ![o] = [target_info |-> << >>, connections |-> None]]
    /\ ret' = [ret EXCEPT ![o] = NoReturn]
    /\ UNCHANGED <<client, socks, wire, response_data, peer, calls>>

\* Another actor (the user at the canvas, another client) connects something to
\* an input of the target, or clears the canvas.
OtherActor ==
    /\ \/ /\ Len(peer.connections) < MaxConns
          /\ \E port \in {"A", "B"} :
                peer' = [peer EXCEPT !.connections =
                            Append(@, [sourceId |-> "s0", targetId |-> "t1", targetParam |-> port])]
       \/ /\ peer.connections # << >>
          /\ peer' = [peer EXCEPT !.connections = << >>]
    /\ UNCHANGED <<pc, call, command, client, socks, wire, response_data, trace, ret, calls>>

RaceNext ==
    \/ \E o \in Operations : RaceCall(o)
    \/ \E o \in Operations : RaceReadInfo(o)
    \/ \E o \in Operations : RaceReadConnections(o)
    \/ \E o \in Operations : RaceWrite(o)
    \/ \E o \in Operations : RaceReturn(o)
    \/ OtherActor

RaceSpec == RaceInit /\ [][RaceNext]_vars

\* ------------------------------------------------------ claims: concurrency

\* The input the operation's connect command is bound to.
BoundTo(o) == Get(command[o].parameters, "targetParam")
\* The input a resolution from the given connections would give.
PortFor(connections) == ResolvePort(RaceTargetInfo, GraphAnswer(connections), "t1", None, None)

\* C21: there is no atomicity between the read exchanges and the write exchange
\* of connect_components: the input a connect command is bound to is the one
\* resolved from the connections the operation read, whatever the peer's graph
\* has become by the time of the write; two concurrent operations can both read
\* input A free and both bind to A, and another actor's change between the read
\* and the write goes undetected.
C21_WriteUsesStaleRead ==
    \A o \in Operations :
        pc[o] = "returned" =>
            /\ BoundTo(o) = PortFor(trace[o].connections[1].result.items)
            /\ ret[o].value.success
\* Both operations have written, each bound to A, and the graph holds both
\* connections on A.
C21_Witness ==
    /\ \A o \in Operations : pc[o] = "returned" /\ BoundTo(o) = Some("A")
    /\ \A o \in Operations : trace[o].connections[1].result.items = << >>
    /\ Len(peer.connections) = 2
    /\ \A i \in 1..2 : peer.connections[i].targetParam = "A"

\* --------------------------------------------------------- claims: analyzer

AnalyzeCalled == pc = "returned" /\ call.tool = "analyze_code_variables"
GuideTextCalled == pc = "returned" /\ call.tool = "_generate_guide_text"

\* C23: for every code text and every dialect the result of
\* analyze_code_variables has disjoint inputs and outputs: a name recorded as an
\* output on any line is absent from inputs even when another line uses it.
C23_InputsOutputsDisjoint ==
    AnalyzeCalled => Range(ret.value.inputs) \cap Range(ret.value.outputs) = {}
\* "a = p" then "p = a" in Python: a is an output of the first line and is used
\* by the second.
C23_Witness ==
    /\ AnalyzeCalled
    /\ call.code = <<"a", " ", "=", " ", "p", "NL", "p", " ", "=", " ", "a">>
    /\ call.language = <<"p", "y", "t", "h", "o", "n">>
    /\ ret.value.outputs = << <<"a">> >>
    /\ ret.value.inputs = << <<"p">> >>

SnippetAnalyzed ==
    /\ Range(ret.value.outputs) = {<<"r", "e", "s", "u", "l", "t">>}
    /\ Range(ret.value.inputs) = {<<"a">>, <<"b">>}
    /\ ret.value.warnings = << >>
NothingAnalyzed ==
    /\ ret.value.outputs = << >>
    /\ ret.value.inputs = << >>
    /\ ret.value.warnings = <<"No variables detected - code might be self-contained">>

\* C24, as stated: analyzing `result = a + b` with the dialect "generic" yields
\* outputs = {result}, inputs = {a, b} and no warning.
C24_AsStated ==
    (AnalyzeCalled /\ call.code = Snippet /\ call.language = <<"g", "e", "n", "e", "r", "i", "c">>)
        => SnippetAnalyzed
\* C24, amended: analyzing `result = a + b` with the dialect python or csharp, in
\* any letter case, yields outputs = {result}, inputs = {a, b} and no warning;
\* with any other dialect, "generic" included, it yields no inputs, no outputs
\* and the warning that no variables were detected.
C24_SnippetByDialect ==
    (AnalyzeCalled /\ call.code = Snippet) =>
        IF Lower(call.language) \in {<<"p", "y", "t", "h", "o", "n">>, <<"c", "s", "h", "a", "r", "p">>}
        THEN SnippetAnalyzed
        ELSE NothingAnalyzed
C24_Witness ==
    /\ AnalyzeCalled
    /\ call.code = Snippet
    /\ call.language = <<"g", "e", "n", "e", "r", "i", "c">>
    /\ NothingAnalyzed

\* The first occurrences of a sequence, in order.
RECURSIVE FirstOccurrences(_, _)
FirstOccurrences(s, seen) ==
    IF s = << >> THEN << >>
    ELSE IF Head(s) \in seen THEN FirstOccurrences(Tail(s), seen)
    ELSE <<Head(s)>> \o FirstOccurrences(Tail(s), seen \cup {Head(s)})
\* The names of a set in the order the lines of the code first mention them.
RECURSIVE MentionedIn(_)
MentionedIn(lines) ==
    IF lines = << >> THEN << >> ELSE FindIdentifiers(Head(lines)) \o MentionedIn(Tail(lines))
InDiscoveryOrder(code, S) ==
    LET Found(name) == name \in S
    IN  SelectSeq(FirstOccurrences(MentionedIn(SplitLines(code)), {}), Found)
DiscoveredVariables(code, language) ==
    LET sets == AnalyzedSets(code, language)
    IN  [inputs |-> InDiscoveryOrder(code, sets.inputs),
         outputs |-> InDiscoveryOrder(code, sets.outputs),
         warnings |-> Warnings(sets.inputs, sets.outputs)]

\* C25: the guide text is reproducible and ordered: for given code, language and
\* explicit parameter lists every text _generate_guide_text can return is the
\* same, and it lists in each section the explicit entries in declaration order
\* and then the analyzer-only entries in the order the code mentions them.
C25_GuideTextReproducible ==
    GuideTextCalled =>
        /\ \A r \in AnalysisResults(call.code, call.language) :
              ret.value = GuideText(call.language, call.input_params, call.output_params, r)
        /\ ret.value = GuideText(call.language, call.input_params, call.output_params,
                                 DiscoveredVariables(call.code, call.language))

\* ------------------------------------------------------------ claims: guide

GuideCalled == pc = "returned" /\ call.tool = "generate_manual_setup_guide"
\* The answers to the exchanges of the call that has returned.
ToolAnswers ==
    IF call.tool \in {"connect_components", "generate_manual_setup_guide"} THEN trace.answers
    ELSE IF ret.kind = "returned" THEN <<ret.value>>
    ELSE << >>
PeerErrors ==
    { [success |-> FALSE, error |-> <<"Component not found">>],
      [success |-> FALSE, error |-> <<"Unknown component type">>] }
IsPeerError(response) ==
    /\ HasKey(response, "success") /\ ~response.success
    /\ HasKey(response, "error") /\ response \in PeerErrors
FirstPeerError ==
    LET refused == {i \in DOMAIN ToolAnswers : IsPeerError(ToolAnswers[i])}
    IN  IF refused = {} THEN None
        ELSE Some(ToolAnswers[CHOOSE i \in refused : \A j \in refused : i <= j])

\* C22: a peer-declared error is passed through unchanged: for every tool, when
\* the peer answers an exchange with success = false and an error string, the
\* tool returns that response, its error string unaltered; this includes
\* generate_manual_setup_guide when its get_component_info or add_component
\* exchange is refused.
C22_PeerErrorPassedThrough ==
    (pc = "returned" /\ FirstPeerError # None) =>
        ret.kind = "returned" /\ ret.value = FirstPeerError[1]

\* The commands of one type that the call sent.
SentOfType(type) == SelectSeq(trace.sent, LAMBDA c : c.type = type)
\* The id the peer assigned in an add_component answer: the id of its result.
AssignedId(response) ==
    IF HasKey(response, "result") /\ response.result # JsonNull /\ HasKey(response.result.fields, "id")
    THEN Some(response.result.fields.id)
    ELSE IF DataResult(response) # None /\ HasKey(DataResult(response)[1], "id")
    THEN Some(DataResult(response)[1].id)
    ELSE None

\* C26: identifiers are only threaded through: in generate_manual_setup_guide
\* the id of the set_component_value command and the targetId of the
\* connect_components command are the id the peer returned in the result of the
\* add_component answer, and the sourceId is the caller's script_component_id.
C26_IdsThreadedThrough ==
    (GuideCalled /\ Len(trace.sent) = 4) =>
        /\ trace.sent[3].parameters.id = AssignedId(trace.answers[2])
        /\ trace.sent[4].parameters.targetId = AssignedId(trace.answers[2])
        /\ trace.sent[4].parameters.sourceId = call.script_component_id

GuideOrder == <<"get_component_info", "add_component", "set_component_value", "connect_components">>
SentInOrder ==
    /\ Len(trace.sent) <= 4
    /\ \A i \in DOMAIN trace.sent : trace.sent[i].type = GuideOrder[i]
\* The answer to a step that did not succeed: none, or one without success = true.
StepFailed(response) == ~(HasKey(response, "success") /\ response.success)
GuideFailed == ret.kind = "returned" /\ HasKey(ret.value, "success") /\ ~ret.value.success

\* C27, as stated: the exchanges go in the order get_component_info,
\* add_component, set_component_value, connect_components, at most one of each;
\* add_component only after get_component_info succeeded, the last two only
\* after add_component succeeded; when an earlier step fails no later command is
\* sent and the call returns a success = false result.
C27_AsStated ==
    GuideCalled =>
        /\ SentInOrder
        /\ \A i \in DOMAIN trace.answers :
              StepFailed(trace.answers[i]) => (Len(trace.sent) = i /\ GuideFailed)
\* C27, amended: the same order, at most one of each; add_component only after
\* get_component_info succeeded, set_component_value and connect_components only
\* after add_component succeeded; when get_component_info or add_component
\* fails no later command is sent and the call returns a success = false
\* result; connect_components is sent after set_component_value whatever the
\* answer to set_component_value, which is what the call returns.
C27_GuideOrder ==
    GuideCalled =>
        /\ SentInOrder
        /\ \A i \in DOMAIN trace.answers \cap {1, 2} :
              StepFailed(trace.answers[i]) => (Len(trace.sent) = i /\ GuideFailed)
        /\ Len(trace.sent) >= 3 =>
              /\ Len(trace.sent) = 4
              /\ ret.kind = "returned" /\ ret.value = trace.answers[3]
\* set_component_value was refused and connect_components was sent all the same.
C27_Witness ==
    /\ GuideCalled
    /\ Len(trace.sent) = 4
    /\ trace.sent[4].type = "connect_components"
    /\ StepFailed(trace.answers[3])
    /\ GuideFailed

\* ----------------------------------------------------------- claims: status

StatusCalled == pc = "returned" /\ call.tool = "get_grasshopper_status"

\* C30: get_grasshopper_status reports "Connected to Grasshopper" only when its
\* exchanges with the peer succeeded; when the peer is unreachable or every
\* exchange returns success = false the status is an error status.
C30_ConnectedOnlyOnSuccess ==
    (StatusCalled /\ ret.value.status = Connected) =>
        \A i \in DOMAIN trace.answers : ~StepFailed(trace.answers[i])

\* ------------------------------------------------------- claims: transport

FaultOccurred == trace.fault # "none"

\* C1: send_to_grasshopper never raises to its caller; after a failure at any
\* stage (connection refused, send or read failure, undecodable bytes, bytes that
\* are no JSON, an empty response) it returns a value with success = false, a
\* non-empty error string and no result field.
C1_FailureBecomesResponse ==
    pc = "done" =>
        /\ ret.kind = "returned"
        /\ FaultOccurred =>
              /\ HasKey(ret.value, "success") /\ ret.value.success = FALSE
              /\ HasKey(ret.value, "error")
              /\ \E i \in DOMAIN ret.value.error : ret.value.error[i] # ""
              /\ ~HasKey(ret.value, "result")

\* The peer closed without sending a byte: the empty response is a failure.
C1_Witness ==
    /\ pc = "done"
    /\ trace.eof /\ response_data = << >>
    /\ trace.fault = "JSONDecodeError"
    /\ ret.kind = "returned" /\ ret.value.success = FALSE

\* What a peer that reads one line makes of the bytes it received: the inverse of
\* the serialisation, written for the reader's side.
RECURSIVE ReadMembers(_)
ReadMembers(toks) ==
    IF Len(toks) < 3 \/ toks[2] # ":" THEN << >>
    ELSE << <<toks[1], toks[3]>> >>
         \o (IF Len(toks) > 3 /\ toks[4] = "," THEN ReadMembers(Suffix(toks, 4)) ELSE << >>)

PeerReads(bytes) ==
    LET n == Len(bytes)
        line == Prefix(bytes, n - 1)
    IN  IF n < 10 \/ bytes[n] # "NL" \/ "NL" \in Range(line) THEN [ok |-> FALSE]
        ELSE IF Prefix(line, 3) # <<"{", "type", ":">>
                  \/ SubSeq(line, 5, 8) # <<",", "parameters", ":", "{">>
                  \/ SubSeq(line, n - 2, n - 1) # <<"}", "}">> THEN [ok |-> FALSE]
        ELSE [ok |-> TRUE, type |-> line[4], parameters |-> ReadMembers(SubSeq(line, 9, n - 3))]

\* The single-line JSON objects of the alphabet and what they denote.
ObjectTexts == {<<"{", "}">>, <<"{", "m", "}">>}
Denotes(text) == IF text = <<"{", "}">> THEN << >> ELSE [success |-> TRUE]
\* A response as the wire protocol has it: an optional byte-order mark, one
\* object on one line, one newline.
WellFormed(bytes) ==
    \E p \in {<< >>, BOM}, t \in ObjectTexts : bytes = p \o t \o <<"NL">>
ObjectOf(bytes) ==
    Denotes(CHOOSE t \in ObjectTexts : \E p \in {<< >>, BOM} : bytes = p \o t \o <<"NL">>)

\* C2: the bridge sends exactly the JSON object {type, parameters} followed by
\* one newline, and when the peer answers with a single-line JSON object ended by
\* a newline, the exchange returns exactly that object, however the bytes are
\* split into chunks and with or without a leading byte-order mark.
C2_RoundTrip ==
    /\ trace.sends > 0 =>
          /\ trace.sends = 1
          /\ PeerReads(wire).ok
          /\ PeerReads(wire).type = call.command_type
          /\ PeerReads(wire).parameters = (IF call.params = None THEN << >> ELSE call.params[1])
    /\ (pc = "done" /\ trace.sends = 1 /\ WellFormed(peer.full)) =>
          /\ ret.kind = "returned"
          /\ ret.value = ObjectOf(peer.full)

\* A response with a byte-order mark that arrived in several chunks.
C2_Witness ==
    /\ pc = "done"
    /\ peer.full = BOM \o <<"{", "}", "NL">>
    /\ trace.reads > 1
    /\ call.params # None
    /\ ret.kind = "returned" /\ ret.value = << >>

\* The object the bytes denote when they are a JSON object after the optional
\* byte-order mark, whitespace aside; << >> when they are not.
DenotedBy(bytes) ==
    LET body == IF Len(bytes) >= 3 /\ Prefix(bytes, 3) = BOM THEN Suffix(bytes, 3) ELSE bytes
        toks == SelectSeq(body, LAMBDA c : c # "NL")
    IN  IF toks \in ObjectTexts THEN <<Denotes(toks)>> ELSE << >>

ClosedBeforeDelimiter == trace.eof /\ ~EndsWithNewline(response_data)

EofIsFinalResponse ==
    (pc = "done" /\ ClosedBeforeDelimiter) =>
        /\ ret.kind = "returned"
        /\ DenotedBy(response_data) # << >> => ret.value = DenotedBy(response_data)[1]
        /\ DenotedBy(response_data) = << >> =>
              HasKey(ret.value, "success") /\ ret.value.success = FALSE

\* C3 as stated: the loop reads on only while no newline is among the bytes
\* received so far; bytes accumulated when the peer closes before a delimiter are
\* the final response (returned when valid JSON, success = false otherwise).
C3_AsStated ==
    /\ pc = "recv" => "NL" \notin Range(response_data)
    /\ EofIsFinalResponse

\* C3: the loop reads on while the bytes received so far do not END with a
\* newline and the peer has not closed; it stops at the first read after which
\* they end with one, or at an empty read; bytes accumulated when the peer
\* closes before a delimiter are the final response (returned when valid JSON,
\* success = false when empty or invalid).
C3_ReadsUntilTrailingNewline ==
    /\ pc = "recv" => ~EndsWithNewline(response_data) /\ ~trace.eof
    /\ pc = "process" => EndsWithNewline(response_data) \/ trace.eof
    /\ EofIsFinalResponse

\* The peer sent an object without a newline and closed: it is the response.
C3_Witness ==
    /\ pc = "done"
    /\ ClosedBeforeDelimiter
    /\ response_data = <<"{", "}">>
    /\ ret.kind = "returned" /\ ret.value = << >>

\* C4: each exchange opens one connection, sends one request on it before any
\* read, and has closed that connection when it returns, on the success path and
\* on every failure path; no connection stays open after the exchange returned
\* and none is used by a later exchange.
C4_ConnectionClosedOnReturn ==
    /\ Len(socks) <= calls
    /\ client # 0 => client = Len(socks)
    /\ trace.reads > 0 => trace.sendsBeforeRead = 1 /\ trace.sends = 1
    /\ pc = "done" /\ client # 0 => socks[client] = "closed"
    /\ pc = "idle" => \A i \in DOMAIN socks : socks[i] = "closed"

PeerTerminates == peer.mode \in {"close", "reset"} \/ EndsWithNewline(peer.full)
Blocked == pc = "recv" /\ peer.stream = << >> /\ peer.mode = "stay"

ReturnsOnlyOnTermination ==
    (pc = "done" /\ trace.sends = 1) =>
        \/ EndsWithNewline(response_data)
        \/ trace.eof
        \/ trace.fault = "ConnectionResetError"

\* C5: once the request is sent, the exchange returns only after a newline-ended
\* response, the peer's close or a connection fault; when the peer does one of
\* these the exchange eventually returns; with a peer that stays connected and
\* sends no delimiter it never returns (no timeout, no retry, no cancellation).
C5_ReturnsIffPeerTerminates ==
    /\ []ReturnsOnlyOnTermination
    /\ [][Blocked => Blocked']_vars
    /\ ((pc = "recv" /\ PeerTerminates) ~> (pc = "done"))

\* The peer sent bytes without a delimiter and stays connected: recv blocks.
C5_Witness ==
    /\ Blocked
    /\ response_data # << >>
    /\ ~EndsWithNewline(response_data)

\* ----------------------------------------------------------- claims: tools

\* s is k with some of its letters in upper case.
IsSpellingOf(s, k) ==
    /\ Len(s) = Len(k)
    /\ \A i \in DOMAIN k : s[i] = k[i] \/ s[i] = ToUpper(k[i])

AddComponentCalled == pc = "returned" /\ call.tool = "add_component"
CreateSliderCalled == pc = "returned" /\ call.tool = "create_slider_with_value"

\* C6: alias resolution in add_component is case-insensitive: for every key of
\* the alias table and every upper/lower-case spelling of it, the type sent to
\* the peer is the canonical name the table gives for the key.
C6_AliasCaseInsensitive ==
    AddComponentCalled =>
        \A k \in DOMAIN component_mapping :
            IsSpellingOf(call.component_type, k) =>
                command.parameters.type = component_mapping[k]

\* "TogGle" was sent as "Boolean Toggle".
C6_Witness ==
    /\ AddComponentCalled
    /\ call.component_type = <<"T", "o", "g", "G", "l", "e">>
    /\ command.parameters.type = Canon.BooleanToggle

\* C7: alias resolution gives the mapped canonical name when the lower-cased raw
\* name is a key of the table ("toggle" gives "Boolean Toggle") and otherwise the
\* raw name exactly as supplied, in its original letter case ("gizmo" gives
\* "gizmo"); no name is rejected: a command is sent for each.
C7_AliasHitOrPassThrough ==
    AddComponentCalled =>
        LET raw == call.component_type
            hits == {k \in DOMAIN component_mapping : IsSpellingOf(raw, k)}
        IN  /\ command.type = "add_component"
            /\ \A k \in hits : command.parameters.type = component_mapping[k]
            /\ hits = {} => command.parameters.type = raw
            /\ raw = <<"t", "o", "g", "g", "l", "e">> => command.parameters.type = <<"B", "o", "o", "l", "e", "a", "n", " ", "T", "o", "g", "g", "l", "e">>
            /\ raw = <<"g", "i", "z", "m", "o">> => command.parameters.type = <<"g", "i", "z", "m", "o">>

\* The unknown name "Gizmo" went out as "Gizmo".
C7_Witness ==
    /\ AddComponentCalled
    /\ call.component_type = <<"G", "i", "z", "m", "o">>
    /\ command.parameters.type = <<"G", "i", "z", "m", "o">>

\* C8: for every target value, the command create_slider_with_value builds
\* carries min, max, value and rounding with min <= target <= max,
\* value = target and rounding > 0.
C8_SliderContainsTarget ==
    CreateSliderCalled =>
        LET p == command.parameters
        IN  /\ {"min", "max", "value", "rounding"} \subseteq DOMAIN p
            /\ p.min <= call.target_value
            /\ call.target_value <= p.max
            /\ p.value = call.target_value
            /\ p.rounding > 0

\* A target of 11.0 lies in its range [0, 22].
C8_Witness ==
    /\ CreateSliderCalled
    /\ call.target_value = 1100
    /\ command.parameters.min = 0 /\ command.parameters.max = 2200

CarriesRange == {"min", "max", "value"} \subseteq DOMAIN command.parameters
ValueInRange ==
    /\ command.parameters.min <= command.parameters.value
    /\ command.parameters.value <= command.parameters.max
BothBoundsGiven == call.min_value # None /\ call.max_value # None

\* C9 as stated: every slider command add_component sends that carries min, max
\* and value has min <= value <= max, whatever optional arguments were supplied.
C9_AsStated == (AddComponentCalled /\ CarriesRange) => ValueInRange

\* C9: every slider command add_component sends that carries min, max and value
\* has min <= value <= max, unless the caller supplied both min_value and
\* max_value (these are sent as given, with the value as given).
C9_InferredRangeContainsValue ==
    (AddComponentCalled /\ CarriesRange /\ ~BothBoundsGiven) => ValueInRange

\* A value of 6.0 without bounds got the range [0, 12].
C9_Witness ==
    /\ AddComponentCalled
    /\ call.value = Some(600) /\ call.min_value = None /\ call.max_value = None
    /\ CarriesRange
    /\ command.parameters.min = 0 /\ command.parameters.max = 1200

\* C10 as stated: for every target with 0 <= target <= 1, target = 0 included,
\* create_slider_with_value gives min = 0 and max = max(2, target*2).
C10_AsStated ==
    (CreateSliderCalled /\ 0 <= call.target_value /\ call.target_value <= 100) =>
        /\ command.parameters.min = 0
        /\ command.parameters.max = Max(200, call.target_value * 2)

\* C10: for every target with 0 < target <= 1, create_slider_with_value gives
\* min = 0 and max = max(2, target*2); for target = 0 it gives min = -10 and
\* max = 10.
C10_SmallPositiveTargets ==
    CreateSliderCalled =>
        /\ (0 < call.target_value /\ call.target_value <= 100) =>
              /\ command.parameters.min = 0
              /\ command.parameters.max = Max(200, call.target_value * 2)
        /\ call.target_value = 0 =>
              /\ command.parameters.min = -1000
              /\ command.parameters.max = 1000

\* A target of 0.5 got the range [0, 2].
C10_Witness ==
    /\ CreateSliderCalled
    /\ call.target_value = 50
    /\ command.parameters.min = 0 /\ command.parameters.max = 200

SliderTypeSent == Contains(Lower(command.parameters.type), <<"s", "l", "i", "d", "e", "r">>)
NoBoundGiven == call.min_value = None /\ call.max_value = None
SimplePathOf300 ==
    /\ AddComponentCalled /\ SliderTypeSent
    /\ call.value = Some(300) /\ NoBoundGiven
RichPathOf300 == CreateSliderCalled /\ call.target_value = 300

\* C12 as stated: add_component of a slider with value = 3.0 and no bounds sends
\* max = 6.0, create_slider_with_value with target = 3.0 sends max = 13.0, and
\* the two maxima differ.
C12_AsStated ==
    /\ SimplePathOf300 => HasKey(command.parameters, "max") /\ command.parameters.max = 600
    /\ RichPathOf300 => command.parameters.max = 1300

\* C12: add_component of a slider with value = 3.0 and no bounds sends
\* max = 10.0 (max(10, value*2)), create_slider_with_value with target = 3.0
\* sends max = 13.0, and the two paths give different maxima for the same input.
C12_PathsDiffer ==
    /\ SimplePathOf300 =>
          /\ HasKey(command.parameters, "max")
          /\ command.parameters.max = 1000
          /\ command.parameters.max # CreateSliderParams(call.x, call.y, 300, "").max
    /\ RichPathOf300 =>
          /\ command.parameters.max = 1300
          /\ command.parameters.max
                # AddComponentParams(Canon.NumberSlider, call.x, call.y, None, None, Some(300)).max

\* add_component("slider", value = 3.0) was sent with max = 10.0.
C12_Witness ==
    /\ SimplePathOf300
    /\ call.component_type = <<"s", "l", "i", "d", "e", "r">>
    /\ command.parameters.min = 0 /\ command.parameters.max = 1000

\* C13: as the recommendation text of the status resource says,
\* create_slider_with_value(x, y, 3.0) sends a slider with the range [0.0, 6.0].
C13_StatusTextRange ==
    (CreateSliderCalled /\ call.target_value = StatusRecommendation.target_value) =>
        /\ command.parameters.min = StatusRecommendation.min
        /\ command.parameters.max = StatusRecommendation.max

\* C14: when the caller of add_component gives both min_value and max_value for a
\* slider type, the command carries exactly these two bounds, with or without a
\* value; no inference changes them.
C14_GivenBoundsVerbatim ==
    (AddComponentCalled /\ SliderTypeSent /\ BothBoundsGiven) =>
        /\ HasKey(command.parameters, "min") /\ command.parameters.min = call.min_value[1]
        /\ HasKey(command.parameters, "max") /\ command.parameters.max = call.max_value[1]

\* Bounds [1, 2] given with the value 6.0 were sent as [1, 2].
C14_Witness ==
    /\ AddComponentCalled /\ SliderTypeSent
    /\ call.min_value = Some(100) /\ call.max_value = Some(200) /\ call.value = Some(600)
    /\ command.parameters.min = 100 /\ command.parameters.max = 200

\* C15 as stated: with both bounds given for a slider type, the command's value
\* is the given value, and the midpoint of the bounds when no value is given.
C15_AsStated ==
    (AddComponentCalled /\ SliderTypeSent /\ BothBoundsGiven) =>
        /\ HasKey(command.parameters, "value")
        /\ IF call.value # None
           THEN command.parameters.value = call.value[1]
           ELSE 2 * command.parameters.value = call.min_value[1] + call.max_value[1]

\* C15: with both bounds given for a slider type, the command's value is the
\* given value, and the command carries no value when none is given.
C15_ValueOnlyWhenGiven ==
    (AddComponentCalled /\ SliderTypeSent /\ BothBoundsGiven) =>
        IF call.value # None
        THEN HasKey(command.parameters, "value") /\ command.parameters.value = call.value[1]
        ELSE ~HasKey(command.parameters, "value")

\* Bounds [0, 2] given without a value: the command has no value.
C15_Witness ==
    /\ AddComponentCalled /\ SliderTypeSent
    /\ call.min_value = Some(0) /\ call.max_value = Some(200) /\ call.value = None
    /\ DOMAIN command.parameters = {"type", "x", "y", "min", "max"}

DefaultRangeWhenNothingGiven ==
    (AddComponentCalled /\ SliderTypeSent /\ NoBoundGiven /\ call.value = None) =>
        /\ HasKey(command.parameters, "min") /\ command.parameters.min = 0
        /\ HasKey(command.parameters, "max") /\ command.parameters.max = 1000

\* C16 as stated: whenever the caller of add_component gives a value for a slider
\* type and not both bounds (none, or exactly one), the command carries a min and
\* a max inferred from the value; with no value and no bounds it carries min = 0
\* and max = 10.
C16_AsStated ==
    /\ (AddComponentCalled /\ SliderTypeSent /\ ~BothBoundsGiven /\ call.value # None) =>
          /\ HasKey(command.parameters, "min")
          /\ HasKey(command.parameters, "max")
    /\ DefaultRangeWhenNothingGiven

\* C16: whenever the caller of add_component gives a value for a slider type and
\* neither bound, the command carries the min and the max inferred from the
\* value's magnitude; when exactly one bound is given, the command carries that
\* bound as given and not the other one, with or without a value; with no value
\* and no bounds it carries min = 0 and max = 10.
C16_InferenceOnlyWithoutBounds ==
    /\ (AddComponentCalled /\ SliderTypeSent /\ NoBoundGiven /\ call.value # None) =>
          LET v == call.value[1]
              p == command.parameters
          IN  /\ HasKey(p, "min") /\ HasKey(p, "max")
              /\ p.min = (IF v < 0 THEN Min(v * 2, -1000) ELSE 0)
              /\ p.max = (IF v > 100 THEN Max(1000, v * 2)
                          ELSE IF v < 0 THEN Max(1000, Abs(v) * 2)
                          ELSE Max(200, v * 2))
    /\ (AddComponentCalled /\ SliderTypeSent /\ call.min_value # None /\ call.max_value = None) =>
          /\ HasKey(command.parameters, "min") /\ command.parameters.min = call.min_value[1]
          /\ ~HasKey(command.parameters, "max")
    /\ (AddComponentCalled /\ SliderTypeSent /\ call.min_value = None /\ call.max_value # None) =>
          /\ HasKey(command.parameters, "max") /\ command.parameters.max = call.max_value[1]
          /\ ~HasKey(command.parameters, "min")
    /\ DefaultRangeWhenNothingGiven

\* The value 6.0 given with min_value = 0 only: the command has no max.
C16_Witness ==
    /\ AddComponentCalled /\ SliderTypeSent
    /\ call.min_value = Some(0) /\ call.max_value = None /\ call.value = Some(600)
    /\ DOMAIN command.parameters = {"type", "x", "y", "min", "value"}

\* ----------------------------------------------------- claims: connections

\* connect_components returned after sending its connect command.
ConnectSent ==
    /\ pc = "returned"
    /\ call.tool = "connect_components"
    /\ command.type = "connect_components"

ExplicitTargetPort == call.target_param # None \/ call.target_param_index # None

\* The type the peer reported for the target, None when it reported none.
ReportedType ==
    IF InfoHasType(trace.target_info) THEN Some(trace.target_info.result.fields.type) ELSE None
ArithmeticNames ==
    { <<"A", "d", "d", "i", "t", "i", "o", "n">>,
      <<"S", "u", "b", "t", "r", "a", "c", "t", "i", "o", "n">>,
      <<"M", "u", "l", "t", "i", "p", "l", "i", "c", "a", "t", "i", "o", "n">>,
      <<"D", "i", "v", "i", "s", "i", "o", "n">>,
      <<"M", "a", "t", "h">> }
ArithmeticTarget == ReportedType # None /\ ReportedType[1] \in ArithmeticNames

\* The connections into the target the peer reported, as a set.
IntoTarget ==
    IF trace.connections # None /\ HasKey(trace.connections[1], "result")
    THEN LET items == trace.connections[1].result.items
         IN  {items[i] : i \in {j \in DOMAIN items : Get(items[j], "targetId") = Some(call.target_id)}}
    ELSE {}
OnFirstInput(conn) == Get(conn, "targetParam") = Some("A") \/ Get(conn, "targetParamIndex") = Some(0)
OnSecondInput(conn) == Get(conn, "targetParam") = Some("B") \/ Get(conn, "targetParamIndex") = Some(1)

\* C17: when the caller of connect_components gives a target port (target_param
\* or target_param_index), the connect command carries that port as given, for
\* every target type and all existing connections; a port is assigned
\* automatically only when both are absent.
C17_ExplicitPortUnmodified ==
    (ConnectSent /\ ExplicitTargetPort) =>
        LET p == command.parameters
        IN  IF call.target_param # None
            THEN Get(p, "targetParam") = call.target_param /\ ~HasKey(p, "targetParamIndex")
            ELSE Get(p, "targetParamIndex") = call.target_param_index /\ ~HasKey(p, "targetParam")

\* Index 1 given for an Addition whose input A is taken: index 1 was sent.
C17_Witness ==
    /\ ConnectSent
    /\ call.target_param = None /\ call.target_param_index = Some(1)
    /\ ReportedType = Some(Canon.Addition)
    /\ \E c \in IntoTarget : OnFirstInput(c)
    /\ Get(command.parameters, "targetParamIndex") = Some(1)
    /\ ~HasKey(command.parameters, "targetParam")

\* C18: for a target of a binary-input arithmetic type and a call without a
\* target port, connect_components assigns "B" when some reported connection into
\* the target is on name "A" or index 0, and "A" otherwise; the choice depends
\* only on the set of these connections, not on their order, and it is never a
\* port known to be taken while the other one is free.
C18_FirstFreeOfAThenB ==
    (ConnectSent /\ ArithmeticTarget /\ ~ExplicitTargetPort) =>
        LET p == command.parameters
            aTaken == \E c \in IntoTarget : OnFirstInput(c)
            bTaken == \E c \in IntoTarget : OnSecondInput(c)
        IN  /\ Get(p, "targetParam") = (IF aTaken THEN Some("B") ELSE Some("A"))
            /\ ~HasKey(p, "targetParamIndex")
            /\ ~(Get(p, "targetParam") = Some("A") /\ aTaken /\ ~bTaken)
            /\ ~(Get(p, "targetParam") = Some("B") /\ bTaken /\ ~aTaken)

\* Input A is taken by the second of two reported connections: "B" was assigned.
C18_Witness ==
    /\ ConnectSent /\ ArithmeticTarget /\ ~ExplicitTargetPort
    /\ trace.connections # None
    /\ HasKey(trace.connections[1], "result")
    /\ Len(trace.connections[1].result.items) = 2
    /\ ~OnFirstInput(trace.connections[1].result.items[1])
    /\ Get(trace.connections[1].result.items[1], "targetId") = Some(call.target_id)
    /\ OnFirstInput(trace.connections[1].result.items[2])
    /\ Get(trace.connections[1].result.items[2], "targetId") = Some(call.target_id)
    /\ Get(command.parameters, "targetParam") = Some("B")

\* C19: for a target whose type is not of the binary-input arithmetic set (or
\* whose type the peer did not report) and a call without a target port, the
\* connect command carries neither targetParam nor targetParamIndex, whatever
\* connections exist.
C19_NoPortForOtherTypes ==
    (ConnectSent /\ ~ArithmeticTarget /\ ~ExplicitTargetPort) =>
        /\ ~HasKey(command.parameters, "targetParam")
        /\ ~HasKey(command.parameters, "targetParamIndex")

\* A Panel with a connection on its input A: the command names no target port.
C19_Witness ==
    /\ ConnectSent /\ ~ExplicitTargetPort
    /\ ReportedType = Some(Canon.Panel)
    /\ \E c \in IntoTarget : OnFirstInput(c)
    /\ call.source_param = None /\ call.source_param_index = None
    /\ DOMAIN command.parameters = {"sourceId", "targetId"}

\* C20: in every connect command, each side carries at most one of the name form
\* and the index form, and when the caller gives both a name and an index for a
\* side, the name is the one sent.
C20_NameBeforeIndex ==
    ConnectSent =>
        LET p == command.parameters
        IN  /\ ~(HasKey(p, "sourceParam") /\ HasKey(p, "sourceParamIndex"))
            /\ ~(HasKey(p, "targetParam") /\ HasKey(p, "targetParamIndex"))
            /\ (call.source_param # None /\ call.source_param_index # None) =>
                  Get(p, "sourceParam") = call.source_param
            /\ (call.target_param # None /\ call.target_param_index # None) =>
                  Get(p, "targetParam") = call.target_param

\* Name and index given on both sides: the names "R" and "B" were sent.
C20_Witness ==
    /\ ConnectSent
    /\ call.source_param = Some("R") /\ call.source_param_index = Some(1)
    /\ call.target_param = Some("B") /\ call.target_param_index = Some(0)
    /\ DOMAIN command.parameters = {"sourceId", "targetId", "sourceParam", "targetParam"}
    /\ command.parameters.sourceParam = "R" /\ command.parameters.targetParam = "B"

\* ------------------------------------------------ claims: the tools, again

\* C29: alias resolution is idempotent: for every raw name, resolving the name
\* add_component resolved it to gives that same name again (no canonical name of
\* the table lower-cases to a key that maps to another canonical name).
C29_ResolutionIdempotent ==
    AddComponentCalled => Normalize(command.parameters.type) = command.parameters.type

\* "DISPLAY" went out as "Panel", which "panel" maps to itself.
C29_Witness ==
    /\ AddComponentCalled
    /\ call.component_type = <<"D", "I", "S", "P", "L", "A", "Y">>
    /\ command.parameters.type = Canon.Panel
    /\ Lower(Canon.Panel) \in DOMAIN component_mapping

ConnectCalled == pc = "returned" /\ call.tool = "connect_components"

\* The types of the commands sent, in order.
SentTypes == [i \in DOMAIN trace.sent |-> trace.sent[i].type]

\* C28: every call of connect_components sends exactly one connect_components
\* command, as its last exchange, after one get_component_info exchange and at
\* most one get_connections exchange (made only when the info carries a type);
\* the connect command is sent also when the read exchanges fail, and the call
\* returns the response to it.
C28_ConnectAlwaysSent ==
    ConnectCalled =>
        /\ SentTypes \in { <<"get_component_info", "connect_components">>,
                           <<"get_component_info", "get_connections", "connect_components">> }
        /\ (Len(SentTypes) = 3) <=> InfoHasType(trace.target_info)
        /\ ret.kind = "returned"
        /\ ret.value = trace.answers[Len(trace.answers)]

====
